---- MODULE Spec2Model ----
(***************************************************************************)
(* cclib: unified client layer for exchange REST APIs.                     *)
(*                                                                         *)
(* Three specifications over one state:                                    *)
(*   SpecTransport  http_session.get_session / set_proxy, called one after *)
(*                  the other (each call is one step);                     *)
(*   SpecThreads    the same two functions called from several threads,    *)
(*                  interleaved line by line;                              *)
(*   SpecRequest    the request() method of every exchange client:         *)
(*                  build and sign, HTTP send, classification.             *)
(***************************************************************************)
EXTENDS Integers, Sequences, FiniteSets, TLC

\* ------------------------------------------------------------------------
\* Bounds
\* ------------------------------------------------------------------------
NumUrls == 2      \* distinct base URLs handed to get_session
NumProxies == 2   \* distinct non-empty proxy strings handed to set_proxy
NumThreads == 2   \* threads of SpecThreads
MaxCalls == 3     \* calls started altogether in SpecThreads

\* ------------------------------------------------------------------------
\* Values
\* ------------------------------------------------------------------------
\* Python None (http_session.py: __PROXY = None) and the empty string; the
\* non-empty proxy strings are 1..NumProxies.
NoneValue == 0 - 1
EmptyStr == 0
ProxyValues == {NoneValue, EmptyStr} \cup (1..NumProxies)
Urls == 1..NumUrls

\* Python truth value of a proxy argument: None and "" are false.
Truthy(p) == p /= NoneValue /\ p /= EmptyStr

\* Session objects are numbered in the order requests.Session() creates them.
MaxSess == NumUrls + MaxCalls
SessIds == 1..MaxSess
NoSess == 0

\* A Python dict over string keys: a function whose domain is the key set.
EmptyDict == [k \in {} |-> NoneValue]
DictSet(d, k, v) == [x \in (DOMAIN d) \cup {k} |-> IF x = k THEN v ELSE d[x]]
DictDel(d, k) == [x \in (DOMAIN d) \ {k} |-> d[x]]

VARIABLES
    GLOBAL_SESSIONS,  \* __GLOBAL_SESSIONS: insertion-ordered <<[key, sess]>>
    PROXY,            \* __PROXY
    proxies,          \* sess.proxies of every session object
    nextSess,         \* number of the next session object to be created
    lastOp,           \* the call that completed last (SpecTransport)
    prevOp,           \* the call that completed before lastOp
    firstRet,         \* firstRet[u]: what the first get_session(u) returned
    pc,               \* pc[t]: the line thread t is about to execute
    targ,             \* targ[t]: argument of the call thread t is in
    tsess,            \* tsess[t]: the local variable sess of thread t
    iter,             \* iter[t]: the dict iterator of set_proxy's for loop
    tlast,            \* tlast[t]: the call thread t completed last
    numGet,           \* get_session calls started (SpecThreads)
    numSet,           \* set_proxy calls started (SpecThreads)
    rpc,              \* where the request() call is: idle, sending, done
    call,             \* the client and the arguments of the request() call
    req,              \* what the call hands to the session for sending
    sig,              \* the signature the signer returned in this call
    sends,            \* HTTP sends performed in this call
    rsp,              \* what the send gave: an exception or a response
    outcome,          \* how the call ended: return value or error raised
    now,              \* the clock, read once by every call
    cparams,          \* the params mapping object the caller passed
    huobi             \* base_url and __host_url of the HuobiApiBase object

tvars == <<GLOBAL_SESSIONS, PROXY, proxies, nextSess>>
hvars == <<lastOp, prevOp, firstRet>>
cvars == <<pc, targ, tsess, iter, tlast, numGet, numSet>>
rvars == <<rpc, call, req, sig, sends, rsp, outcome, now, cparams, huobi>>

\* ------------------------------------------------------------------------
\* __GLOBAL_SESSIONS as an insertion-ordered dict
\* ------------------------------------------------------------------------
CacheKeys(cache) == {cache[i].key : i \in 1..Len(cache)}
CacheGet(cache, u) == (CHOOSE i \in 1..Len(cache) : cache[i].key = u)
CacheSess(cache, u) == cache[CacheGet(cache, u)].sess
\* d[u] = s: replaces the value in place when the key exists, else appends
CachePut(cache, u, s) ==
    IF u \in CacheKeys(cache)
    THEN [cache EXCEPT ![CacheGet(cache, u)].sess = s]
    ELSE Append(cache, [key |-> u, sess |-> s])
CachedSessions == {GLOBAL_SESSIONS[i].sess : i \in 1..Len(GLOBAL_SESSIONS)}

NoOp == [op |-> "none", arg |-> NoneValue, ret |-> NoSess, raised |-> "none",
         created |-> FALSE]

\* ------------------------------------------------------------------------
\* http_session.get_session, as one step
\* ------------------------------------------------------------------------
\* The proxies of a session made by requests.Session() under proxy p
\* (lines 10-13).
\* mutant: the new session is cached without the configured proxy
NewSessionProxies_unproxied(p) == EmptyDict

NewSessionProxies(p) ==
    IF Truthy(p)
    THEN DictSet(DictSet(EmptyDict, "http", p), "https", p)
    ELSE EmptyDict

\* mutant: the membership test of line 9 is dropped, every call makes and
\* caches a new session
get_session_recreate(base_url) ==
    /\ nextSess <= MaxSess
    /\ proxies' = [proxies EXCEPT ![nextSess] = NewSessionProxies(PROXY)]
    /\ GLOBAL_SESSIONS' = CachePut(GLOBAL_SESSIONS, base_url, nextSess)
    /\ nextSess' = nextSess + 1
    /\ UNCHANGED <<PROXY, cvars, rvars>>
    /\ prevOp' = lastOp
    /\ lastOp' = [op |-> "get_session", arg |-> base_url,
                  ret |-> CacheSess(GLOBAL_SESSIONS', base_url),
                  raised |-> "none", created |-> TRUE]
    /\ firstRet' = IF firstRet[base_url] = NoSess
                   THEN [firstRet EXCEPT ![base_url] =
                            CacheSess(GLOBAL_SESSIONS', base_url)]
                   ELSE firstRet

get_session(base_url) ==
    /\ IF base_url \notin CacheKeys(GLOBAL_SESSIONS)
       THEN /\ nextSess <= MaxSess
            /\ proxies' = [proxies EXCEPT ![nextSess] = NewSessionProxies(PROXY)]
            /\ GLOBAL_SESSIONS' = CachePut(GLOBAL_SESSIONS, base_url, nextSess)
            /\ nextSess' = nextSess + 1
       ELSE UNCHANGED <<proxies, GLOBAL_SESSIONS, nextSess>>
    /\ UNCHANGED <<PROXY, cvars, rvars>>
    /\ prevOp' = lastOp
    /\ lastOp' = [op |-> "get_session", arg |-> base_url,
                  ret |-> CacheSess(GLOBAL_SESSIONS', base_url),
                  raised |-> "none",
                  created |-> (base_url \notin CacheKeys(GLOBAL_SESSIONS))]
    /\ firstRet' = IF firstRet[base_url] = NoSess
                   THEN [firstRet EXCEPT ![base_url] =
                            CacheSess(GLOBAL_SESSIONS', base_url)]
                   ELSE firstRet

\* ------------------------------------------------------------------------
\* http_session.set_proxy, as one step
\* ------------------------------------------------------------------------
\* The body of the for loop for one session (lines 30-35): the new
\* sess.proxies and the exception raised, "none" when there is none.  del
\* of a missing key raises KeyError and leaves the rest of the body undone.
\* mutant: the else branch forgets to delete 'https'
SetProxyBody_http_only(d, p) ==
    IF Truthy(p)
    THEN [d |-> DictSet(DictSet(d, "http", p), "https", p), raised |-> "none"]
    ELSE IF "http" \notin DOMAIN d
         THEN [d |-> d, raised |-> "KeyError"]
         ELSE [d |-> DictDel(d, "http"), raised |-> "none"]

SetProxyBody(d, p) ==
    IF Truthy(p)
    THEN [d |-> DictSet(DictSet(d, "http", p), "https", p), raised |-> "none"]
    ELSE IF "http" \notin DOMAIN d
         THEN [d |-> d, raised |-> "KeyError"]
         ELSE IF "https" \notin DOMAIN DictDel(d, "http")
              THEN [d |-> DictDel(d, "http"), raised |-> "KeyError"]
              ELSE [d |-> DictDel(DictDel(d, "http"), "https"),
                    raised |-> "none"]

\* The for loop from the i-th cached session on (line 29): stops at the
\* first exception.
RECURSIVE SetProxyLoop(_, _, _, _)
SetProxyLoop(i, cache, px, p) ==
    IF i > Len(cache)
    THEN [proxies |-> px, raised |-> "none"]
    ELSE LET s == cache[i].sess
             r == SetProxyBody(px[s], p)
         IN  IF r.raised /= "none"
             THEN [proxies |-> [px EXCEPT ![s] = r.d], raised |-> r.raised]
             ELSE SetProxyLoop(i + 1, cache, [px EXCEPT ![s] = r.d], p)

set_proxy(proxy) ==
    LET r == SetProxyLoop(1, GLOBAL_SESSIONS, proxies, proxy) IN
    /\ PROXY' = proxy
    /\ proxies' = r.proxies
    /\ UNCHANGED <<GLOBAL_SESSIONS, nextSess, firstRet, cvars, rvars>>
    /\ prevOp' = lastOp
    /\ lastOp' = [op |-> "set_proxy", arg |-> proxy, ret |-> NoSess,
                  raised |-> r.raised, created |-> FALSE]

\* ------------------------------------------------------------------------
\* SpecTransport
\* ------------------------------------------------------------------------
Threads == 1..NumThreads
NoIter == [used |-> 0, pos |-> 0]

\* The state after the module http_session is imported (lines 4-5).
ModuleInit ==
    /\ GLOBAL_SESSIONS = << >>
    /\ PROXY = NoneValue
    /\ proxies = [s \in SessIds |-> EmptyDict]
    /\ nextSess = 1

IdleThreads ==
    /\ pc = [t \in Threads |-> "idle"]
    /\ targ = [t \in Threads |-> NoneValue]
    /\ tsess = [t \in Threads |-> NoSess]
    /\ iter = [t \in Threads |-> NoIter]
    /\ tlast = [t \in Threads |-> NoOp]
    /\ numGet = 0
    /\ numSet = 0

GetSession == \E u \in Urls : get_session(u)
SetProxy == \E p \in ProxyValues : set_proxy(p)

TNext == GetSession \/ SetProxy

vars == <<tvars, hvars, cvars, rvars>>

\* ------------------------------------------------------------------------
\* SpecThreads: get_session and set_proxy run by several threads.  The
\* module takes no lock, so a thread switch can fall between any two lines.
\* ------------------------------------------------------------------------
Goto(t, l) == pc' = [pc EXCEPT ![t] = l]

\* the call of thread t ends: by a return of ret, or by the exception raised
Finish(t, o, ret, raised) ==
    /\ tlast' = [tlast EXCEPT ![t] =
                    [op |-> o, arg |-> targ[t], ret |-> ret,
                     raised |-> raised, created |-> tsess[t] /= NoSess]]
    /\ pc' = [pc EXCEPT ![t] = "idle"]
    /\ tsess' = [tsess EXCEPT ![t] = NoSess]
    /\ iter' = [iter EXCEPT ![t] = NoIter]

CallGetSession(t) ==
    /\ pc[t] = "idle"
    /\ numGet + numSet < MaxCalls
    /\ \E u \in Urls : targ' = [targ EXCEPT ![t] = u]
    /\ numGet' = numGet + 1
    /\ Goto(t, "gs9")
    /\ UNCHANGED <<tvars, hvars, rvars, tsess, iter, tlast, numSet>>

\* line 9: if base_url not in __GLOBAL_SESSIONS
GetSessionTest(t) ==
    /\ pc[t] = "gs9"
    /\ IF targ[t] \notin CacheKeys(GLOBAL_SESSIONS)
       THEN Goto(t, "gs10")
       ELSE Goto(t, "gs15")
    /\ UNCHANGED <<tvars, hvars, rvars, targ, tsess, iter, tlast, numGet, numSet>>

\* line 10: sess = requests.Session()
GetSessionNew(t) ==
    /\ pc[t] = "gs10"
    /\ nextSess <= MaxSess
    /\ tsess' = [tsess EXCEPT ![t] = nextSess]
    /\ nextSess' = nextSess + 1
    /\ Goto(t, "gs11")
    /\ UNCHANGED <<GLOBAL_SESSIONS, PROXY, proxies, hvars, rvars, targ, iter, tlast,
                   numGet, numSet>>

\* line 11: if __PROXY
GetSessionIfProxy(t) ==
    /\ pc[t] = "gs11"
    /\ IF Truthy(PROXY) THEN Goto(t, "gs12") ELSE Goto(t, "gs14")
    /\ UNCHANGED <<tvars, hvars, rvars, targ, tsess, iter, tlast, numGet, numSet>>

\* line 12: sess.proxies['http'] = __PROXY, the global read again
GetSessionHttp(t) ==
    /\ pc[t] = "gs12"
    /\ proxies' = [proxies EXCEPT ![tsess[t]] = DictSet(@, "http", PROXY)]
    /\ Goto(t, "gs13")
    /\ UNCHANGED <<GLOBAL_SESSIONS, PROXY, nextSess, hvars, rvars, targ, tsess, iter,
                   tlast, numGet, numSet>>

\* line 13: sess.proxies['https'] = __PROXY, the global read again
GetSessionHttps(t) ==
    /\ pc[t] = "gs13"
    /\ proxies' = [proxies EXCEPT ![tsess[t]] = DictSet(@, "https", PROXY)]
    /\ Goto(t, "gs14")
    /\ UNCHANGED <<GLOBAL_SESSIONS, PROXY, nextSess, hvars, rvars, targ, tsess, iter,
                   tlast, numGet, numSet>>

\* line 14: __GLOBAL_SESSIONS[base_url] = sess
GetSessionInsert(t) ==
    /\ pc[t] = "gs14"
    /\ GLOBAL_SESSIONS' = CachePut(GLOBAL_SESSIONS, targ[t], tsess[t])
    /\ Goto(t, "gs15")
    /\ UNCHANGED <<PROXY, proxies, nextSess, hvars, rvars, targ, tsess, iter, tlast,
                   numGet, numSet>>

\* line 15: return __GLOBAL_SESSIONS[base_url]
GetSessionReturn(t) ==
    /\ pc[t] = "gs15"
    /\ Finish(t, "get_session", CacheSess(GLOBAL_SESSIONS, targ[t]), "none")
    /\ UNCHANGED <<tvars, hvars, rvars, targ, numGet, numSet>>

CallSetProxy(t) ==
    /\ pc[t] = "idle"
    /\ numGet + numSet < MaxCalls
    /\ \E p \in ProxyValues : targ' = [targ EXCEPT ![t] = p]
    /\ numSet' = numSet + 1
    /\ Goto(t, "sp28")
    /\ UNCHANGED <<tvars, hvars, rvars, tsess, iter, tlast, numGet>>

\* line 28: __PROXY = proxy
SetProxyAssign(t) ==
    /\ pc[t] = "sp28"
    /\ PROXY' = targ[t]
    /\ Goto(t, "sp29")
    /\ UNCHANGED <<GLOBAL_SESSIONS, proxies, nextSess, hvars, rvars, targ, tsess,
                   iter, tlast, numGet, numSet>>

\* line 29: iter(__GLOBAL_SESSIONS.values()); the iterator remembers the
\* size of the dict
SetProxyIter(t) ==
    /\ pc[t] = "sp29"
    /\ iter' = [iter EXCEPT ![t] = [used |-> Len(GLOBAL_SESSIONS), pos |-> 1]]
    /\ Goto(t, "sp29n")
    /\ UNCHANGED <<tvars, hvars, rvars, targ, tsess, tlast, numGet, numSet>>

\* line 29: the next value of the iterator; RuntimeError ("dictionary
\* changed size during iteration") when the dict has grown since line 29
SetProxyForNext(t) ==
    /\ pc[t] = "sp29n"
    /\ IF Len(GLOBAL_SESSIONS) /= iter[t].used
       THEN Finish(t, "set_proxy", NoSess, "RuntimeError")
       ELSE IF iter[t].pos > Len(GLOBAL_SESSIONS)
            THEN Finish(t, "set_proxy", NoSess, "none")
            ELSE /\ tsess' = [tsess EXCEPT ![t] =
                                 GLOBAL_SESSIONS[iter[t].pos].sess]
                 /\ iter' = [iter EXCEPT ![t].pos = @ + 1]
                 /\ Goto(t, "sp30")
                 /\ UNCHANGED tlast
    /\ UNCHANGED <<tvars, hvars, rvars, targ, numGet, numSet>>

\* line 30: if __PROXY
SetProxyIfProxy(t) ==
    /\ pc[t] = "sp30"
    /\ IF Truthy(PROXY) THEN Goto(t, "sp31") ELSE Goto(t, "sp34")
    /\ UNCHANGED <<tvars, hvars, rvars, targ, tsess, iter, tlast, numGet, numSet>>

\* line 31: sess.proxies['http'] = __PROXY
SetProxyHttp(t) ==
    /\ pc[t] = "sp31"
    /\ proxies' = [proxies EXCEPT ![tsess[t]] = DictSet(@, "http", PROXY)]
    /\ Goto(t, "sp32")
    /\ UNCHANGED <<GLOBAL_SESSIONS, PROXY, nextSess, hvars, rvars, targ, tsess, iter,
                   tlast, numGet, numSet>>

\* line 32: sess.proxies['https'] = __PROXY
SetProxyHttps(t) ==
    /\ pc[t] = "sp32"
    /\ proxies' = [proxies EXCEPT ![tsess[t]] = DictSet(@, "https", PROXY)]
    /\ Goto(t, "sp29n")
    /\ UNCHANGED <<GLOBAL_SESSIONS, PROXY, nextSess, hvars, rvars, targ, tsess, iter,
                   tlast, numGet, numSet>>

\* line 34: del sess.proxies['http']; KeyError when the key is not there
SetProxyDelHttp(t) ==
    /\ pc[t] = "sp34"
    /\ IF "http" \in DOMAIN proxies[tsess[t]]
       THEN /\ proxies' = [proxies EXCEPT ![tsess[t]] = DictDel(@, "http")]
            /\ Goto(t, "sp35")
            /\ UNCHANGED <<tsess, iter, tlast>>
       ELSE /\ Finish(t, "set_proxy", NoSess, "KeyError")
            /\ UNCHANGED proxies
    /\ UNCHANGED <<GLOBAL_SESSIONS, PROXY, nextSess, hvars, rvars, targ, numGet,
                   numSet>>

\* line 35: del sess.proxies['https']
SetProxyDelHttps(t) ==
    /\ pc[t] = "sp35"
    /\ IF "https" \in DOMAIN proxies[tsess[t]]
       THEN /\ proxies' = [proxies EXCEPT ![tsess[t]] = DictDel(@, "https")]
            /\ Goto(t, "sp29n")
            /\ UNCHANGED <<tsess, iter, tlast>>
       ELSE /\ Finish(t, "set_proxy", NoSess, "KeyError")
            /\ UNCHANGED proxies
    /\ UNCHANGED <<GLOBAL_SESSIONS, PROXY, nextSess, hvars, rvars, targ, numGet,
                   numSet>>

CNext ==
    \E t \in Threads :
        \/ CallGetSession(t)
        \/ GetSessionTest(t)
        \/ GetSessionNew(t)
        \/ GetSessionIfProxy(t)
        \/ GetSessionHttp(t)
        \/ GetSessionHttps(t)
        \/ GetSessionInsert(t)
        \/ GetSessionReturn(t)
        \/ CallSetProxy(t)
        \/ SetProxyAssign(t)
        \/ SetProxyIter(t)
        \/ SetProxyForNext(t)
        \/ SetProxyIfProxy(t)
        \/ SetProxyHttp(t)
        \/ SetProxyHttps(t)
        \/ SetProxyDelHttp(t)
        \/ SetProxyDelHttps(t)

\* ========================================================================
\* The request() method of the exchange clients
\* ========================================================================
MaxClock == 2     \* request() calls in one behaviour (one clock reading each)

Clients == {"Binance", "BybitLegacy", "BybitV5", "Ftx", "Huobi", "OkexV5",
            "OkexV3", "Backpack", "Bitmake"}
Methods == {"GET", "POST", "DELETE", "PATCH"}

\* ------------------------------------------------------------------------
\* Python values
\* ------------------------------------------------------------------------
\* An insertion-ordered dict of strings: a sequence of <<key, value>>.
OKeys(d) == {d[i][1] : i \in 1..Len(d)}
OIndex(d, k) == CHOOSE i \in 1..Len(d) : d[i][1] = k
OGet(d, k) == d[OIndex(d, k)][2]
OSet(d, k, v) ==
    IF k \in OKeys(d)
    THEN [d EXCEPT ![OIndex(d, k)] = <<k, v>>]
    ELSE Append(d, <<k, v>>)
OValues(d) == {d[i][2] : i \in 1..Len(d)}

\* A JSON scalar, or the field of an error that holds one: t is its type.
JInt(n) == [t |-> "int", i |-> n, s |-> ""]
JStr(x) == [t |-> "str", i |-> 0, s |-> x]
JBool(b) == [t |-> "bool", i |-> IF b THEN 1 ELSE 0, s |-> ""]
JNone == [t |-> "none", i |-> 0, s |-> ""]

\* ------------------------------------------------------------------------
\* Strings the signers build
\* ------------------------------------------------------------------------
\* urllib.parse.quote_plus on the strings the model uses: '/' becomes %2F,
\* ':' becomes %3A; letters, digits and '_.-' stay.
QuotePlus(x) ==
    CASE x = "BTC/USD" -> "BTC%2FUSD"
      [] x = "1970-01-01T00:00:01" -> "1970-01-01T00%3A00%3A01"
      [] x = "1970-01-01T00:00:02" -> "1970-01-01T00%3A00%3A02"
      [] x = "1970-01-01T00:00:03" -> "1970-01-01T00%3A00%3A03"
      [] OTHER -> x

\* urllib.parse.urlencode of an item sequence
RECURSIVE UrlEncode(_)
UrlEncode(d) ==
    IF Len(d) = 0 THEN ""
    ELSE QuotePlus(d[1][1]) \o "=" \o QuotePlus(d[1][2])
         \o (IF Len(d) = 1 THEN "" ELSE "&" \o UrlEncode(Tail(d)))

\* json.dumps of a dict of strings
RECURSIVE JsonItems(_)
JsonItems(d) ==
    IF Len(d) = 0 THEN ""
    ELSE "\"" \o d[1][1] \o "\": \"" \o d[1][2] \o "\""
         \o (IF Len(d) = 1 THEN "" ELSE ", " \o JsonItems(Tail(d)))
JsonDumps(d) == "{" \o JsonItems(d) \o "}"

\* The keys the clients and their callers use, in the order Python sorts
\* strings (by code point: upper case before lower case).
KeyOrder == <<"AccessKeyId", "Signature", "SignatureMethod",
              "SignatureVersion", "Timestamp", "a", "api_key", "b",
              "recvWindow", "sign", "signature", "symbol", "timestamp">>
KeyRank(k) == CHOOSE i \in 1..Len(KeyOrder) : KeyOrder[i] = k

\* sorted(params.items(), key=lambda d: d[0]): insertion sort on the key
RECURSIVE SortedInsert(_, _)
SortedInsert(sorted, item) ==
    IF Len(sorted) = 0 THEN <<item>>
    ELSE IF KeyRank(item[1]) < KeyRank(sorted[1][1])
         THEN <<item>> \o sorted
         ELSE <<sorted[1]>> \o SortedInsert(Tail(sorted), item)
RECURSIVE SortedItems(_)
SortedItems(d) ==
    IF Len(d) = 0 THEN << >>
    ELSE SortedInsert(SortedItems(SubSeq(d, 1, Len(d) - 1)), d[Len(d)])

\* hmac.new(key, msg, sha256) in the output encoding enc: a symbolic digest,
\* equal for equal key and message only
Hmac(key, msg, enc) == enc \o "(HMAC_SHA256(" \o key \o ", " \o msg \o "))"

\* ------------------------------------------------------------------------
\* The clock and the credentials
\* ------------------------------------------------------------------------
\* int(datetime.now().timestamp() * 1000), int(time.time() * 1000)
MillisStr(clock) == ToString(clock * 1000)
\* int(datetime.now().timestamp())
SecondsStr(clock) == ToString(clock)
\* datetime.utcnow().strftime("%Y-%m-%dT%H:%M:%S")
IsoStr(clock) == "1970-01-01T00:00:0" \o ToString(clock)

AccessKey == "K"
SecretKey == "S"
Passphrase == "P"
SubAccount == "sub"

\* urljoin(base_url, uri) and the test uri.startswith("http")
BaseUrl(client) ==
    CASE client = "Binance" -> "https://api.binance.com"
      [] client \in {"BybitLegacy", "BybitV5"} -> "https://api.bybit.com"
      [] client = "Ftx" -> "https://ftx.com/"
      [] client = "Huobi" -> "https://api.hbdm.com"
      [] client \in {"OkexV5", "OkexV3"} -> "https://www.okx.com"
      [] client = "Backpack" -> "https://api.backpack.exchange"
      [] client = "Bitmake" -> "https://api.bitmake.com/"
\* the uris of the model: one base-relative path and one absolute URL
RelUri == "/api/v1/ticker"
AbsUri == "https://x.test/api/v1/ticker"
Uris == {RelUri, AbsUri}
IsAbsolute(uri) == uri = AbsUri
\* huobi.py: DEFAULT_BASE_URL and BASE_URL_CN
HuobiBaseUrls == {"https://api.hbdm.com", "https://api.btcgateway.pro"}
\* urllib.parse.urlparse(url).hostname.lower()
HostOf(url) ==
    CASE url = AbsUri -> "x.test"
      [] url \in {"https://api.hbdm.com", "https://api.hbdm.com" \o RelUri} ->
            "api.hbdm.com"
      [] url \in {"https://api.btcgateway.pro",
                  "https://api.btcgateway.pro" \o RelUri} ->
            "api.btcgateway.pro"
      [] OTHER -> ""
UrlJoin(base, uri) ==
    IF IsAbsolute(uri) THEN uri
    ELSE IF base = "https://ftx.com/" THEN "https://ftx.com" \o uri
    ELSE IF base = "https://api.bitmake.com/"
         THEN "https://api.bitmake.com" \o uri
    ELSE base \o uri
\* the path of a uri: '/' + '/'.join(uri.split('/')[3:]) for an absolute one
PathOf(uri) == RelUri

\* ------------------------------------------------------------------------
\* Requests, responses, errors
\* ------------------------------------------------------------------------
\* The body argument of request() and the data handed to the session.
NoBody == [kind |-> "none", text |-> "", d |-> << >>]
StrBody(x) == [kind |-> "str", text |-> x, d |-> << >>]
DictBody(d) == [kind |-> "dict", text |-> "", d |-> d]
\* requests' json= argument: the dict, serialised by requests
JsonBody(d) == [kind |-> "json", text |-> JsonDumps(d), d |-> d]
\* Python truth value of a body argument
BodyTruthy(b) ==
    \/ b.kind = "str" /\ b.text /= ""
    \/ b.kind \in {"dict", "json"} /\ Len(b.d) > 0

\* What request() hands to the session: params is the params mapping, query
\* a ready-made query string (BybitV5 passes params=query_string), timeout
\* the timeout argument (NoneValue when the call passes none).
Req(method, url, params, query, headers, body, timeout) ==
    [method |-> method, url |-> url, params |-> params, query |-> query,
     headers |-> headers, body |-> body, timeout |-> timeout]
NoReq == Req("", "", << >>, "", << >>, NoBody, NoneValue)

DefaultTimeout == 10

\* A response body: raw bytes that are no JSON document (text, and whether
\* they decode as UTF-8), or a decoded JSON value: a list, null, or a
\* mapping d from keys to JSON scalars.
RawBody(x, utf8) == [kind |-> "raw", text |-> x, utf8 |-> utf8, d |-> << >>]
ListBody == [kind |-> "list", text |-> "[]", utf8 |-> TRUE, d |-> << >>]
NullBody == [kind |-> "null", text |-> "null", utf8 |-> TRUE, d |-> << >>]
MapBody(d) == [kind |-> "dict", text |-> "", utf8 |-> TRUE, d |-> d]
\* the payload of an error built without one (payload=None)
NonePayload == [kind |-> "none", text |-> "", utf8 |-> TRUE, d |-> << >>]

\* An instance of a class of errors.py (BaseError.__init__), or of a Python
\* exception that is not in the taxonomy (then only cls matters).
Err(cls, msg, code, status, payload) ==
    [cls |-> cls, msg |-> msg, code |-> code, status |-> status,
     payload |-> payload]
\* raise errors.X with no arguments: the defaults of BaseError.__init__
ErrDefault(cls) == Err(cls, JStr("unknown"), JInt(-1), JInt(-1), NonePayload)
\* a Python exception outside errors.py
PyExc(cls) == Err(cls, JNone, JNone, JNone, NonePayload)
NoErr == Err("", JNone, JNone, JNone, NonePayload)

\* errors.py: the base class of every class
ErrBase(cls) ==
    CASE cls = "ExchangeError" -> "BaseError"
      [] cls = "ExchangeInMaintain" -> "ExchangeError"
      [] cls = "AuthenticationError" -> "ExchangeError"
      [] cls = "PermissionDenied" -> "AuthenticationError"
      [] cls = "OutOfRateLimitWarning" -> "ExchangeError"
      [] cls = "OutOfRateLimitError" -> "ExchangeError"
      [] cls = "ArgumentsRequired" -> "ExchangeError"
      [] cls = "ArgumentsError" -> "ExchangeError"
      [] cls = "ServiceTimeout" -> "ExchangeError"
      [] cls = "NetworkError" -> "BaseError"
      [] cls = "ConnectionError" -> "NetworkError"
      [] cls = "TimeoutError" -> "NetworkError"
      [] cls = "ResponseError" -> "BaseError"
      [] cls = "ParseJsonError" -> "ResponseError"
      [] OTHER -> ""
ErrClasses == {"BaseError", "ExchangeError", "ExchangeInMaintain",
               "AuthenticationError", "PermissionDenied",
               "OutOfRateLimitWarning", "OutOfRateLimitError",
               "ArgumentsRequired", "ArgumentsError", "ServiceTimeout",
               "NetworkError", "ConnectionError", "TimeoutError",
               "ResponseError", "ParseJsonError"}
RECURSIVE IsKind(_, _)
IsKind(cls, base) ==
    \/ cls = base
    \/ ErrBase(cls) /= "" /\ IsKind(ErrBase(cls), base)

\* The result of the part of request() that runs before the HTTP send:
\* the request to send, or the exception raised before anything is sent.
\* sig is the signature the signer returned, "" when it was not called.
Built(r, sg) == [raised |-> FALSE, err |-> NoErr, req |-> r, sig |-> sg]
BuildRaises(e) == [raised |-> TRUE, err |-> e, req |-> NoReq, sig |-> ""]

\* a str body made by json.dumps(d); d is kept to tell what the text holds
DumpedBody(d) == [kind |-> "str", text |-> JsonDumps(d), d |-> d]

\* `if not params: params = {}` and `if params is None: params = {}`
ParamsOrEmpty(c) == IF c.paramsNone THEN << >> ELSE c.params

ContentTypeJson == <<"Content-type", "application/json">>

\* ------------------------------------------------------------------------
\* BinanceApiBase.request, up to the send (binance.py lines 32-51)
\* ------------------------------------------------------------------------
BinanceApiBase_generate_signature(params, body) ==
    Hmac(SecretKey, UrlEncode(params) \o body, "hex")

BinanceApiBase_request_build(c, clock) ==
    LET url == UrlJoin(BaseUrl("Binance"), c.uri)
        params == ParamsOrEmpty(c)
        p1 == IF "recvWindows" \notin OKeys(params)
              THEN OSet(params, "recvWindow", "5000") ELSE params
        p2 == IF "timestamp" \notin OKeys(p1)
              THEN OSet(p1, "timestamp", MillisStr(clock)) ELSE p1
        sign == BinanceApiBase_generate_signature(p2, c.body.text)
    IN  IF ~c.auth
        THEN Built(Req(c.method, url, params, "", <<ContentTypeJson>>,
                       c.body, DefaultTimeout), "")
        ELSE IF BodyTruthy(c.body) /\ c.body.kind = "dict"
        THEN \* encode_params + body with a dict body
             BuildRaises(PyExc("builtins.TypeError"))
        ELSE Built(Req(c.method, url, OSet(p2, "signature", sign), "",
                       <<<<"X-MBX-APIKEY", AccessKey>>, ContentTypeJson>>,
                       c.body, DefaultTimeout), sign)

\* ------------------------------------------------------------------------
\* BaseBybitApi.request, up to the send (bybit.py lines 31-53)
\* ------------------------------------------------------------------------
\* mutant: the items are encoded in insertion order, without sorting
BaseBybitApi_generate_signature_unsorted(method, params) ==
    Hmac(SecretKey, UrlEncode(params), "hex")

BaseBybitApi_generate_signature(method, params) ==
    Hmac(SecretKey, UrlEncode(SortedItems(params)), "hex")

BaseBybitApi_request_build(c, clock) ==
    LET url == UrlJoin(BaseUrl("BybitLegacy"), c.uri)
        params == ParamsOrEmpty(c)
        p1 == IF "timestamp" \notin OKeys(params)
              THEN OSet(params, "timestamp", MillisStr(clock)) ELSE params
        p2 == IF "api_key" \notin OKeys(p1)
              THEN OSet(p1, "api_key", AccessKey) ELSE p1
        sign == BaseBybitApi_generate_signature(c.method, p2)
        sent == IF c.auth THEN OSet(p2, "sign", sign) ELSE params
    IN  Built(IF c.method /= "GET"
              THEN Req(c.method, url, << >>, "", << >>, DumpedBody(sent),
                       DefaultTimeout)
              ELSE Req(c.method, url, sent, "", << >>, NoBody,
                       DefaultTimeout),
              IF c.auth THEN sign ELSE "")

\* ------------------------------------------------------------------------
\* BybitV5Api.request, up to the send (bybit.py lines 112-146)
\* ------------------------------------------------------------------------
RecvWindow == 5000

\* mutant: the query string is signed whatever the method
BybitV5Api_generate_signature_query_only(method, timestamp, query_string, body_string, recv_window) ==
    Hmac(SecretKey, timestamp \o AccessKey \o recv_window \o query_string,
         "hex")

BybitV5Api_generate_signature(method, timestamp, query_string, body_string, recv_window) ==
    Hmac(SecretKey,
         IF method = "GET"
         THEN timestamp \o AccessKey \o recv_window \o query_string
         ELSE timestamp \o AccessKey \o recv_window \o body_string,
         "hex")

BybitV5Api_request_build(c, clock) ==
    LET url == UrlJoin(BaseUrl("BybitV5"), c.uri)
        query_string == UrlEncode(ParamsOrEmpty(c))
        \* body="" by default; a dict is replaced by json.dumps(body)
        body == IF c.body.kind = "none" THEN StrBody("")
                ELSE IF c.body.kind = "dict" THEN DumpedBody(c.body.d)
                ELSE c.body
        timestamp == MillisStr(clock)
        recv_window_str == ToString(RecvWindow)
        sign == BybitV5Api_generate_signature(c.method, timestamp,
                    query_string, body.text, recv_window_str)
        h0 == <<<<"Content-Type", "application/json">>>>
        h1 == h0 \o <<<<"X-BAPI-API-KEY", AccessKey>>,
                      <<"X-BAPI-TIMESTAMP", timestamp>>,
                      <<"X-BAPI-RECV-WINDOW", recv_window_str>>,
                      <<"X-BAPI-SIGN", sign>>>>
    IN  Built(Req(c.method, url, << >>, query_string,
                  IF c.auth THEN h1 ELSE h0, body, DefaultTimeout),
              IF c.auth THEN sign ELSE "")

\* ------------------------------------------------------------------------
\* FtxApi.request, up to the send (ftx.py lines 27-39), and FtxApi.signature
\* ------------------------------------------------------------------------
\* FtxApi(sub_account=""): the default
FtxSubAccount == ""

\* prepared.path_url: the path, and '?' and the query when there is one
PathUrl(uri, params) ==
    PathOf(uri) \o (IF Len(params) = 0 THEN "" ELSE "?" \o UrlEncode(params))

\* the signature and the headers signature() adds to the prepared request
FtxApi_signature(method, path_url, clock) ==
    LET ts == MillisStr(clock)
        signature == Hmac(SecretKey, ts \o method \o path_url, "hex")
    IN  [sig |-> signature,
         headers |-> <<<<"FTX-KEY", AccessKey>>, <<"FTX-SIGN", signature>>,
                       <<"FTX-TS", ts>>>>
                     \o (IF FtxSubAccount /= ""
                         THEN <<<<"FTX-SUBACCOUNT", FtxSubAccount>>>>
                         ELSE << >>)]

\* mutant: the prepared request is sent without calling signature()
FtxApi_request_build_unsigned(c, clock) ==
    Built(Req(c.method, UrlJoin(BaseUrl("Ftx"), c.uri), ParamsOrEmpty(c), "",
              << >>, c.body, NoneValue), "")

FtxApi_request_build(c, clock) ==
    LET url == UrlJoin(BaseUrl("Ftx"), c.uri)
        params == ParamsOrEmpty(c)
        signed == FtxApi_signature(c.method, PathUrl(c.uri, params), clock)
    IN  \* self.__session.send(prepared_req): no timeout argument
        IF c.auth
        THEN Built(Req(c.method, url, params, "", signed.headers, c.body,
                       NoneValue), signed.sig)
        ELSE Built(Req(c.method, url, params, "", << >>, c.body, NoneValue),
                   "")

\* ------------------------------------------------------------------------
\* HuobiApiBase.request, up to the send (huobi.py lines 41-63)
\* ------------------------------------------------------------------------
HuobiApiBase_generate_signature(method, params, request_path) ==
    LET host_url == IF IsAbsolute(request_path)
                    THEN HostOf(request_path)
                    ELSE huobi.host_url
        payload == method \o "\n" \o host_url \o "\n" \o PathOf(request_path)
                   \o "\n" \o UrlEncode(SortedItems(params))
    IN  Hmac(SecretKey, payload, "base64")

\* params.update({...}) of line 50
HuobiAuthParams(params, timestamp) ==
    OSet(OSet(OSet(OSet(params, "AccessKeyId", AccessKey),
                   "SignatureMethod", "HmacSHA256"),
              "SignatureVersion", "2"),
         "Timestamp", timestamp)

HuobiApiBase_request_build(c, clock) ==
    LET url == UrlJoin(huobi.base_url, c.uri)
        p1 == HuobiAuthParams(ParamsOrEmpty(c), IsoStr(clock))
        sign == HuobiApiBase_generate_signature(c.method, p1, c.uri)
        params == IF c.auth THEN OSet(p1, "Signature", sign)
                  ELSE ParamsOrEmpty(c)
        headers == IF c.method = "GET"
                   THEN <<<<"Content-type",
                            "application/x-www-form-urlencoded">>>>
                   ELSE <<<<"Accept", "application/json">>, ContentTypeJson>>
    IN  IF c.method \notin {"GET", "POST"}
        THEN BuildRaises(PyExc("builtins.ValueError"))
        ELSE Built(Req(c.method, url, params, "", headers, c.body,
                       DefaultTimeout),
                   IF c.auth THEN sign ELSE "")

\* ------------------------------------------------------------------------
\* OkexApiBase.request, up to the send (okex.py lines 53-73)
\* ------------------------------------------------------------------------
\* OkexApiBase.__parse_params_to_str: '?k=v&k=v', cut by one character
RECURSIVE PlainItems(_)
PlainItems(d) ==
    IF Len(d) = 0 THEN ""
    ELSE d[1][1] \o "=" \o d[1][2]
         \o (IF Len(d) = 1 THEN "" ELSE "&" \o PlainItems(Tail(d)))
OkexApiBase_parse_params_to_str(params) ==
    IF Len(params) = 0 THEN "" ELSE "?" \o PlainItems(params)

OkexApiBase_generate_signature(timestamp_s, method, request_path, body) ==
    Hmac(SecretKey, timestamp_s \o method \o request_path \o body, "base64")

OkexApiBase_request_build(c, clock) ==
    LET url == UrlJoin(BaseUrl(c.client), c.uri)
        params == ParamsOrEmpty(c)
        body == IF BodyTruthy(c.body) /\ c.body.kind = "dict"
                THEN DumpedBody(c.body.d) ELSE c.body
        timestamp == IsoStr(clock) \o "Z"
        request_path == c.uri \o OkexApiBase_parse_params_to_str(params)
        sign == OkexApiBase_generate_signature(timestamp, c.method,
                    request_path, body.text)
        h1 == <<<<"OK-ACCESS-KEY", AccessKey>>,
                 <<"OK-ACCESS-TIMESTAMP", timestamp>>,
                 <<"OK-ACCESS-PASSPHRASE", Passphrase>>,
                 <<"OK-ACCESS-SIGN", sign>>, ContentTypeJson>>
    IN  Built(Req(c.method, url, params, "",
                  IF c.auth THEN h1 ELSE <<ContentTypeJson>>, body,
                  DefaultTimeout),
              IF c.auth THEN sign ELSE "")

\* ------------------------------------------------------------------------
\* BackpackApi.request, up to the send (backpack.py lines 70-88)
\* ------------------------------------------------------------------------
BackpackApi_sign(data) == Hmac(SecretKey, UrlEncode(data), "hex")

BackpackApi_request_build(c, clock) ==
    LET url == UrlJoin(BaseUrl("Backpack"), c.uri)
        p1 == OSet(OSet(ParamsOrEmpty(c), "api_key", AccessKey),
                   "timestamp", SecondsStr(clock))
        sign == BackpackApi_sign(p1)
        params == IF c.auth THEN OSet(p1, "sign", sign) ELSE ParamsOrEmpty(c)
    IN  IF c.auth /\ c.secretNone
        THEN \* self.secret_key.encode() with secret_key=None, the default
             BuildRaises(PyExc("builtins.AttributeError"))
        ELSE IF c.method = "GET"
        THEN Built(Req(c.method, url, params, "", << >>, NoBody,
                       DefaultTimeout),
                   IF c.auth THEN sign ELSE "")
        ELSE IF c.method = "POST"
        THEN Built(Req(c.method, url, params, "", << >>, JsonBody(c.body.d),
                       DefaultTimeout),
                   IF c.auth THEN sign ELSE "")
        ELSE \* errors.InvalidMethod does not exist: AttributeError, inside
             \* the try block, caught by `except Exception`
             BuildRaises(Err("ExchangeError", JStr("AttributeError"),
                             JInt(-1), JInt(-1), NonePayload))

\* ------------------------------------------------------------------------
\* BitmakeApi.request, up to the send (bitmake.py lines 47-59)
\* ------------------------------------------------------------------------
BitmakeApi_request_build(c, clock) ==
    IF c.auth
    THEN BuildRaises(PyExc("builtins.NotImplementedError"))
    ELSE Built(Req(c.method, UrlJoin(BaseUrl("Bitmake"), c.uri),
                   ParamsOrEmpty(c), "", <<ContentTypeJson>>, c.body,
                   DefaultTimeout), "")

\* request() of client c.client, up to the send
RequestBuild(c, clock) ==
    CASE c.client = "Binance" -> BinanceApiBase_request_build(c, clock)
      [] c.client = "BybitLegacy" -> BaseBybitApi_request_build(c, clock)
      [] c.client = "BybitV5" -> BybitV5Api_request_build(c, clock)
      [] c.client = "Ftx" -> FtxApi_request_build(c, clock)
      [] c.client = "Huobi" -> HuobiApiBase_request_build(c, clock)
      [] c.client \in {"OkexV5", "OkexV3"} ->
            OkexApiBase_request_build(c, clock)
      [] c.client = "Backpack" -> BackpackApi_request_build(c, clock)
      [] c.client = "Bitmake" -> BitmakeApi_request_build(c, clock)

\* ------------------------------------------------------------------------
\* The params mapping of the caller: request() works on the object it is
\* given, so what it stores under a key is stored in the caller's mapping
\* ------------------------------------------------------------------------
\* binance.py lines 37-49: the caller's object unless it is None
BinanceApiBase_request_params(c, clock) ==
    LET p1 == IF "recvWindows" \notin OKeys(c.params)
              THEN OSet(c.params, "recvWindow", "5000") ELSE c.params
        p2 == IF "timestamp" \notin OKeys(p1)
              THEN OSet(p1, "timestamp", MillisStr(clock)) ELSE p1
    IN  IF ~c.auth THEN c.params
        ELSE IF BodyTruthy(c.body) /\ c.body.kind = "dict"
        THEN p2       \* generate_signature raised, after the two stores
        ELSE OSet(p2, "signature",
                  BinanceApiBase_generate_signature(p2, c.body.text))

\* bybit.py lines 38-47: `if not params: params = {}` replaces an empty
\* mapping by a new one
BaseBybitApi_request_params(c, clock) ==
    LET p1 == IF "timestamp" \notin OKeys(c.params)
              THEN OSet(c.params, "timestamp", MillisStr(clock)) ELSE c.params
        p2 == IF "api_key" \notin OKeys(p1)
              THEN OSet(p1, "api_key", AccessKey) ELSE p1
    IN  IF c.auth /\ Len(c.params) > 0
        THEN OSet(p2, "sign", BaseBybitApi_generate_signature(c.method, p2))
        ELSE c.params

\* huobi.py lines 47-54: `params if params else {}`
HuobiApiBase_request_params(c, clock) ==
    LET p1 == HuobiAuthParams(c.params, IsoStr(clock))
    IN  IF c.auth /\ Len(c.params) > 0
        THEN OSet(p1, "Signature",
                  HuobiApiBase_generate_signature(c.method, p1, c.uri))
        ELSE c.params

\* backpack.py lines 71-81: the caller's object unless it is None
BackpackApi_request_params(c, clock) ==
    LET p1 == OSet(OSet(c.params, "api_key", AccessKey),
                   "timestamp", SecondsStr(clock))
    IN  IF ~c.auth THEN c.params
        ELSE IF c.secretNone THEN p1      \* _sign raised, after the stores
        ELSE OSet(p1, "sign", BackpackApi_sign(p1))

\* what the mapping the caller passed as params holds after request() of
\* client c.client ran up to the send; the other clients store nothing
CallerParams(c, clock) ==
    CASE c.client = "Binance" -> BinanceApiBase_request_params(c, clock)
      [] c.client = "BybitLegacy" -> BaseBybitApi_request_params(c, clock)
      [] c.client = "Huobi" -> HuobiApiBase_request_params(c, clock)
      [] c.client = "Backpack" -> BackpackApi_request_params(c, clock)
      [] OTHER -> c.params

\* the caller's mapping: passed tells whether the call was given one, orig
\* what it held when the caller made it, d what it holds now
ParamsObj(client, orig, d) ==
    [passed |-> TRUE, client |-> client, orig |-> orig, d |-> d]
NoParamsObj == [passed |-> FALSE, client |-> "", orig |-> << >>, d |-> << >>]

\* ------------------------------------------------------------------------
\* The HTTP send fails: the except clauses around it
\* ------------------------------------------------------------------------
\* The exceptions of the requests library a send raises, and for each the
\* classes it is an instance of (requests/exceptions.py).  The Python
\* built-ins ConnectionError and TimeoutError are different classes: no
\* requests exception derives from them.
TransportExcs == {"requests.ConnectionError", "requests.ConnectTimeout",
                  "requests.ReadTimeout", "requests.TooManyRedirects"}
ExcClasses(e) ==
    CASE e = "requests.ConnectionError" ->
            {e, "requests.RequestException", "Exception"}
      [] e = "requests.ConnectTimeout" ->
            {e, "requests.ConnectionError", "requests.Timeout",
             "requests.RequestException", "Exception"}
      [] e = "requests.ReadTimeout" ->
            {e, "requests.Timeout", "requests.RequestException", "Exception"}
      [] e = "requests.TooManyRedirects" ->
            {e, "requests.RequestException", "Exception"}
      [] e = "requests.HTTPError" ->
            {e, "requests.RequestException", "Exception"}
      [] e = "requests.JSONDecodeError" ->
            {e, "requests.RequestException", "builtins.ValueError",
             "Exception"}
      [] OTHER -> {e, "Exception"}

\* what the names ConnectionError and TimeoutError mean in the module of a
\* client: binance.py, huobi.py and okex.py import ConnectionError from
\* requests.exceptions, bybit.py, ftx.py and bitmake.py do not; no module
\* imports a TimeoutError
ConnectionErrorName(client) ==
    IF client \in {"Binance", "Huobi", "OkexV5", "OkexV3"}
    THEN "requests.ConnectionError"
    ELSE "builtins.ConnectionError"
TimeoutErrorName(client) == "builtins.TimeoutError"

\* the except clauses, in order: <<class caught, class of errors.py raised>>
ExceptClauses(client) ==
    IF client = "Backpack"
    THEN <<<<"requests.Timeout", "TimeoutError">>,
           <<"requests.RequestException", "ConnectionError">>,
           <<"Exception", "ExchangeError">>>>
    ELSE <<<<ConnectionErrorName(client), "ConnectionError">>,
           <<TimeoutErrorName(client), "TimeoutError">>,
           <<"requests.RequestException", "NetworkError">>>>

\* the first except clause that matches exception e, 0 when none does
RECURSIVE FirstMatch(_, _, _)
FirstMatch(clauses, e, i) ==
    IF i > Len(clauses) THEN 0
    ELSE IF clauses[i][1] \in ExcClasses(e) THEN i
    ELSE FirstMatch(clauses, e, i + 1)

\* what request() raises when exception e comes out of the try block
RequestExcept(client, e) ==
    LET clauses == ExceptClauses(client)
        i == FirstMatch(clauses, e, 1)
    IN  IF i = 0 THEN PyExc(e)
        ELSE IF client = "Backpack"
        THEN \* raise errors.X(e): the exception is the message
             Err(clauses[i][2], JStr(e), JInt(-1), JInt(-1), NonePayload)
        ELSE \* raise errors.X from e
             ErrDefault(clauses[i][2])

\* ------------------------------------------------------------------------
\* Outcomes of request()
\* ------------------------------------------------------------------------
Returns(value) == [kind |-> "return", value |-> value, err |-> NoErr]
Raises(e) == [kind |-> "raise", value |-> NonePayload, err |-> e]
NoOutcome == [kind |-> "none", value |-> NonePayload, err |-> NoErr]

\* rsp_obj.get(k, default) on a decoded mapping
JGet(d, k, default) == IF k \in OKeys(d) THEN OGet(d, k) ELSE default

Parsed(body) == body.kind /= "raw"
\* rsp.content of a body
Content(body) == RawBody(body.text, body.utf8)

\* ------------------------------------------------------------------------
\* BinanceApiBase.request after the send (binance.py lines 61-99)
\* ------------------------------------------------------------------------
\* The message prefixes are Chinese in the source; the model writes them in
\* ASCII.
\* mutant: the lower end of the range of argument errors is left out
BinanceApiBase_request_classify_open_range(status, body) ==
    LET \* rsp.json() raised, or rsp_obj.dumps() did (AttributeError)
        inExcept == body.kind /= "dict"
        rsp_obj == IF inExcept THEN NonePayload ELSE body
        code == IF inExcept THEN JInt(-1) ELSE JGet(body.d, "code", JInt(-1))
        msg == IF inExcept
               THEN "parse message json error. content:" \o body.text
               ELSE JGet(body.d, "msg", JStr("unknown")).s
        E(cls, m) == Raises(Err(cls, JStr(m), code, JInt(status), rsp_obj))
    IN  IF Parsed(body) /\ status = 200 THEN Returns(body)
        ELSE IF inExcept /\ ~body.utf8
        THEN Raises(PyExc("builtins.UnicodeDecodeError"))
        ELSE IF status = 429
        THEN E("OutOfRateLimitWarning", "about to exceed the limit:" \o msg)
        ELSE IF status = 418
        THEN E("OutOfRateLimitError", "limit exceeded" \o msg)
        ELSE IF -1099 <= code.i /\ code.i <= -1000
        THEN IF code.i = -1003 THEN E("OutOfRateLimitError", msg)
             ELSE IF code.i = -1007 THEN E("ServiceTimeout", msg)
             ELSE IF code.i = -1022 THEN E("AuthenticationError", msg)
             ELSE IF code.i = -1016 THEN E("ExchangeInMaintain", msg)
             ELSE E("ExchangeError", msg)
        ELSE IF -1199 < code.i /\ code.i <= -1100
        THEN E("ArgumentsError", msg)
        ELSE IF -2099 <= code.i /\ code.i <= -2000
        THEN IF code.i \in {-2014, -2015} THEN E("AuthenticationError", msg)
             ELSE E("ExchangeError", msg)
        ELSE E("ExchangeError", msg)

\* mutant: the native code is classified before the status is looked at
BinanceApiBase_request_classify_code_first(status, body) ==
    LET inExcept == body.kind /= "dict"
        rsp_obj == IF inExcept THEN NonePayload ELSE body
        code == IF inExcept THEN JInt(-1) ELSE JGet(body.d, "code", JInt(-1))
        msg == IF inExcept
               THEN "parse message json error. content:" \o body.text
               ELSE JGet(body.d, "msg", JStr("unknown")).s
        E(cls, m) == Raises(Err(cls, JStr(m), code, JInt(status), rsp_obj))
    IN  IF Parsed(body) /\ status = 200 THEN Returns(body)
        ELSE IF inExcept /\ ~body.utf8
        THEN Raises(PyExc("builtins.UnicodeDecodeError"))
        ELSE IF -1099 <= code.i /\ code.i <= -1000
        THEN IF code.i = -1003 THEN E("OutOfRateLimitError", msg)
             ELSE IF code.i = -1007 THEN E("ServiceTimeout", msg)
             ELSE IF code.i = -1022 THEN E("AuthenticationError", msg)
             ELSE IF code.i = -1016 THEN E("ExchangeInMaintain", msg)
             ELSE E("ExchangeError", msg)
        ELSE IF -1199 <= code.i /\ code.i <= -1100
        THEN E("ArgumentsError", msg)
        ELSE IF -2099 <= code.i /\ code.i <= -2000
        THEN IF code.i \in {-2014, -2015} THEN E("AuthenticationError", msg)
             ELSE E("ExchangeError", msg)
        ELSE IF status = 429
        THEN E("OutOfRateLimitWarning", "about to exceed the limit:" \o msg)
        ELSE IF status = 418
        THEN E("OutOfRateLimitError", "limit exceeded" \o msg)
        ELSE E("ExchangeError", msg)

BinanceApiBase_request_classify(status, body) ==
    LET \* rsp.json() raised, or rsp_obj.dumps() did (AttributeError)
        inExcept == body.kind /= "dict"
        rsp_obj == IF inExcept THEN NonePayload ELSE body
        code == IF inExcept THEN JInt(-1) ELSE JGet(body.d, "code", JInt(-1))
        msg == IF inExcept
               THEN "parse message json error. content:" \o body.text
               ELSE JGet(body.d, "msg", JStr("unknown")).s
        E(cls, m) == Raises(Err(cls, JStr(m), code, JInt(status), rsp_obj))
    IN  IF Parsed(body) /\ status = 200 THEN Returns(body)
        ELSE IF inExcept /\ ~body.utf8
        THEN Raises(PyExc("builtins.UnicodeDecodeError"))
        ELSE IF status = 429
        THEN E("OutOfRateLimitWarning", "about to exceed the limit:" \o msg)
        ELSE IF status = 418
        THEN E("OutOfRateLimitError", "limit exceeded" \o msg)
        ELSE IF -1099 <= code.i /\ code.i <= -1000
        THEN IF code.i = -1003 THEN E("OutOfRateLimitError", msg)
             ELSE IF code.i = -1007 THEN E("ServiceTimeout", msg)
             ELSE IF code.i = -1022 THEN E("AuthenticationError", msg)
             ELSE IF code.i = -1016 THEN E("ExchangeInMaintain", msg)
             ELSE E("ExchangeError", msg)
        ELSE IF -1199 <= code.i /\ code.i <= -1100
        THEN E("ArgumentsError", msg)
        ELSE IF -2099 <= code.i /\ code.i <= -2000
        THEN IF code.i \in {-2014, -2015} THEN E("AuthenticationError", msg)
             ELSE E("ExchangeError", msg)
        ELSE E("ExchangeError", msg)

\* ------------------------------------------------------------------------
\* BaseBybitApi.request (bybit.py lines 64-86) and BybitV5Api.request
\* (lines 156-187) after the send: the same code but for the two keys
\* ------------------------------------------------------------------------
BybitClassify(status, body, codeKey, msgKey) ==
    LET inExcept == body.kind = "raw"
        isdict == body.kind = "dict"
        rsp_obj == IF inExcept THEN NonePayload ELSE body
        code == IF isdict THEN JGet(body.d, codeKey, JInt(-1)) ELSE JInt(-1)
        msg == IF inExcept
               THEN "parse message json error. content:" \o body.text
               ELSE IF isdict
               THEN JGet(body.d, msgKey, JStr("unknown error")).s
               ELSE "unknown error"
        E(cls, m) == Raises(Err(cls, JStr(m), code, JInt(status), rsp_obj))
    IN  IF Parsed(body) /\ status = 200 THEN Returns(body)
        ELSE IF isdict /\ code = JInt(0) THEN Returns(body)
        ELSE IF inExcept /\ ~body.utf8
        THEN Raises(PyExc("builtins.UnicodeDecodeError"))
        ELSE IF status = 403
        THEN E("OutOfRateLimitError", "rate limit:" \o msg)
        ELSE IF code = JInt(10003) \/ code = JInt(10018)
        THEN E("OutOfRateLimitError", "rate limit:" \o msg)
        ELSE E("ExchangeError", msg)

BaseBybitApi_request_classify(status, body) ==
    BybitClassify(status, body, "ret_code", "ret_msg")
BybitV5Api_request_classify(status, body) ==
    BybitClassify(status, body, "retCode", "retMsg")

\* ------------------------------------------------------------------------
\* FtxApi.request after the send (ftx.py lines 50-74)
\* ------------------------------------------------------------------------
FtxApi_request_classify(status, body) ==
    LET inExcept == body.kind /= "dict"
        rsp_obj == IF inExcept THEN NonePayload ELSE body
        success == IF inExcept THEN FALSE
                   ELSE JGet(body.d, "success", JBool(FALSE)) = JBool(TRUE)
        code == IF success THEN JInt(0) ELSE JInt(-1)
        msg == IF inExcept
               THEN "parse message json error. content:" \o body.text
               ELSE JGet(body.d, "error", JStr("unknown error")).s
        E(cls, m) == Raises(Err(cls, JStr(m), code, JInt(status), rsp_obj))
    IN  IF Parsed(body) /\ status = 200 THEN Returns(body)
        ELSE IF success THEN Returns(body)
        ELSE IF inExcept /\ ~body.utf8
        THEN Raises(PyExc("builtins.UnicodeDecodeError"))
        ELSE IF status = 429
        THEN E("OutOfRateLimitError", "rate limit:" \o msg)
        ELSE E("ExchangeError", msg)

\* ------------------------------------------------------------------------
\* HuobiApiBase.request after the send (huobi.py lines 81-103)
\* ------------------------------------------------------------------------
\* rsp.reason
Reason(status) ==
    CASE status = 200 -> "OK"
      [] status = 400 -> "Bad Request"
      [] status = 403 -> "Forbidden"
      [] status = 418 -> "I'm a Teapot"
      [] status = 429 -> "Too Many Requests"
      [] OTHER -> "Service Unavailable"

HuobiApiBase_request_classify(status, body) ==
    LET d == body.d
        s == OGet(d, "status")
        err_msg1 == JGet(d, "err-msg", JStr(""))
        err_msg == IF err_msg1 = JStr("")
                   THEN JGet(d, "err_msg", JStr("unknown error"))
                   ELSE err_msg1
    IN  IF ~Parsed(body)
        THEN \* ExchangeError(rsp.status_code, rsp.reason, status_code=...)
             Raises(Err("ExchangeError", JInt(status), JStr(Reason(status)),
                        JInt(status), NonePayload))
        ELSE IF body.kind /= "dict"
        THEN Raises(Err("ExchangeError", JStr("unknown"), JInt(-1), JInt(-1),
                        body))
        ELSE IF "status" \in OKeys(d)
        THEN IF s = JStr("ok") THEN Returns(body)
             ELSE IF s = JStr("maintain")
             THEN Raises(Err("ExchangeInMaintain",
                             JGet(d, "error", JStr("exchange in maintain")),
                             JStr("maintain"), JInt(status), body))
             ELSE Raises(Err("ExchangeError", err_msg, s, JInt(status), body))
        ELSE IF "error" \in OKeys(d)
        THEN Raises(Err("ExchangeError", OGet(d, "error"), JInt(status),
                        JInt(-1), body))
        ELSE \* the function ends without a return statement
             Returns(NonePayload)

\* ------------------------------------------------------------------------
\* OkexApiBase.request after the send (okex.py lines 82-114)
\* ------------------------------------------------------------------------
\* int(x) on the code strings of the model; -1 stands for ValueError
IntOfStr(x) ==
    CASE x = "0" -> 0
      [] x = "50001" -> 50001
      [] x = "50002" -> 50002
      [] x = "50011" -> 50011
      [] x = "51000" -> 51000
      [] OTHER -> 0 - 1

OkexV5Classify(status, body) ==
    LET d == body.d
        codeVal == OGet(d, "code")
        rc == IF codeVal.t = "int" THEN codeVal.i ELSE IntOfStr(codeVal.s)
        msg == OGet(d, "msg")
    IN  IF body.kind /= "dict"
        THEN Raises(Err("ExchangeError", JStr("unknown data type:"),
                        JInt(-1), JInt(status), body))
        ELSE IF "code" \in OKeys(d)
        THEN IF codeVal.t \notin {"int", "str"}
             THEN Raises(PyExc("builtins.TypeError"))
             ELSE IF rc = -1 THEN Raises(PyExc("builtins.ValueError"))
             ELSE IF "msg" \notin OKeys(d)
             THEN Raises(PyExc("builtins.KeyError"))
             ELSE IF rc = 0 THEN Returns(body)
             \* errors.X(rc, msg): rc is the message, msg the error code
             ELSE IF rc = 50002
             THEN Raises(Err("TimeoutError", JInt(rc), msg, JInt(-1),
                             NonePayload))
             ELSE IF rc = 50001
             THEN Raises(Err("ExchangeInMaintain", JInt(rc), msg, JInt(-1),
                             NonePayload))
             ELSE IF rc = 50011
             THEN Raises(Err("OutOfRateLimitError", JInt(rc), msg, JInt(-1),
                             NonePayload))
             ELSE Raises(Err("ExchangeError", msg, JInt(rc), JInt(status),
                             body))
        ELSE IF "msg" \in OKeys(d)
        THEN Raises(Err("ExchangeError", msg, JInt(status), JInt(status),
                        body))
        ELSE Raises(Err("ExchangeError", JStr("unknown message format:"),
                        JInt(-1), JInt(status), body))

OkexV3Classify(status, body) ==
    IF status = 200 THEN Returns(body)
    ELSE IF body.kind /= "dict"
    THEN \* rsp_obj.get on a list or on None
         Raises(PyExc("builtins.AttributeError"))
    ELSE Raises(Err("ExchangeError",
                    JGet(body.d, "error_message", JStr("unknown error")),
                    JGet(body.d, "code", JInt(-1)), JInt(status), body))

\* api_version is 'v5' for OkexApi and 'v3' for the OkexV3 classes
OkexApiBase_request_classify(api_version, status, body) ==
    IF ~Parsed(body)
    THEN Raises(Err("ExchangeError", JStr("parse response json error:"),
                    JInt(-1), JInt(status), Content(body)))
    ELSE IF api_version = "v5" THEN OkexV5Classify(status, body)
    ELSE OkexV3Classify(status, body)

\* ------------------------------------------------------------------------
\* BitmakeApi.request after the send (bitmake.py lines 69-86)
\* ------------------------------------------------------------------------
BitmakeApi_request_classify(status, body) ==
    LET code == JGet(body.d, "code", JInt(-1))
        msg == JGet(body.d, "msg", JStr("unknown")).s
    IN  IF Parsed(body) /\ status = 200 THEN Returns(body)
        ELSE IF body.kind /= "dict"
        THEN \* rsp.json() raised, or rsp_obj.dumps() did
             Raises(Err("ExchangeError", JStr("parse response json error:"),
                        JInt(-1), JInt(status), Content(body)))
        ELSE IF status = 429
        THEN Raises(Err("OutOfRateLimitError", JStr("rate limit:" \o msg),
                        code, JInt(status), body))
        ELSE Raises(Err("ExchangeError", JStr(msg), code, JInt(status), body))

\* ------------------------------------------------------------------------
\* BackpackApi.request after the send (backpack.py lines 89-96)
\* ------------------------------------------------------------------------
\* response.raise_for_status() raises HTTPError for a 4xx or 5xx status;
\* response.json() raises requests' JSONDecodeError (a RequestException)
\* from requests 2.27 on and a plain ValueError before
BackpackApi_request_classify(status, body, lib) ==
    IF status >= 400
    THEN Raises(RequestExcept("Backpack", "requests.HTTPError"))
    ELSE IF ~Parsed(body)
    THEN Raises(RequestExcept("Backpack",
                   IF lib = "new" THEN "requests.JSONDecodeError"
                   ELSE "builtins.ValueError"))
    ELSE Returns(body)

\* request() of a client after the send returned a response
RequestClassify(client, r) ==
    CASE client = "Binance" ->
            BinanceApiBase_request_classify(r.status, r.body)
      [] client = "BybitLegacy" ->
            BaseBybitApi_request_classify(r.status, r.body)
      [] client = "BybitV5" ->
            BybitV5Api_request_classify(r.status, r.body)
      [] client = "Ftx" -> FtxApi_request_classify(r.status, r.body)
      [] client = "Huobi" ->
            HuobiApiBase_request_classify(r.status, r.body)
      [] client = "OkexV5" ->
            OkexApiBase_request_classify("v5", r.status, r.body)
      [] client = "OkexV3" ->
            OkexApiBase_request_classify("v3", r.status, r.body)
      [] client = "Backpack" ->
            BackpackApi_request_classify(r.status, r.body, r.lib)
      [] client = "Bitmake" ->
            BitmakeApi_request_classify(r.status, r.body)

\* ------------------------------------------------------------------------
\* The exchanges: the responses a client can receive
\* ------------------------------------------------------------------------
Statuses == {200, 400, 403, 418, 429, 503}

\* bodies every server can answer with: an HTML error page, bytes that are
\* not UTF-8, a JSON list, JSON null, an empty JSON object
CommonBodies == {RawBody("<html>", TRUE), RawBody("\\xff", FALSE), ListBody,
                 NullBody, MapBody(<< >>)}

CodeMsg(codeKey, code, msgKey, msg) ==
    MapBody(<<<<codeKey, code>>, <<msgKey, JStr(msg)>>>>)

RespBodies(client) ==
    CommonBodies \cup
    CASE client = "Binance" ->
            {CodeMsg("code", JInt(n), "msg", "m") :
                n \in {-1000, -1003, -1007, -1016, -1022, -1099, -1100,
                       -1199, -1200, -2014, -2015, -2010, -4000}}
      [] client = "BybitLegacy" ->
            {CodeMsg("ret_code", JInt(n), "ret_msg", "m") :
                n \in {0, 10001, 10003, 10018}}
      [] client = "BybitV5" ->
            {CodeMsg("retCode", JInt(n), "retMsg", "m") :
                n \in {0, 10001, 10003, 10018}}
      [] client = "Ftx" ->
            {MapBody(<<<<"success", JBool(TRUE)>>>>),
             MapBody(<<<<"success", JBool(FALSE)>>,
                       <<"error", JStr("Not enough balance")>>>>),
             MapBody(<<<<"error", JStr("e")>>>>)}
      [] client = "Huobi" ->
            {MapBody(<<<<"status", JStr("ok")>>>>),
             MapBody(<<<<"status", JStr("maintain")>>>>),
             MapBody(<<<<"status", JStr("maintain")>>,
                       <<"error", JStr("e")>>>>),
             MapBody(<<<<"status", JStr("error")>>,
                       <<"err-msg", JStr("e")>>>>),
             MapBody(<<<<"status", JStr("error")>>,
                       <<"err_msg", JStr("e")>>>>),
             MapBody(<<<<"status", JStr("error")>>>>),
             MapBody(<<<<"error", JStr("e")>>>>)}
      [] client = "OkexV5" ->
            {CodeMsg("code", JStr(x), "msg", "m") :
                x \in {"0", "50001", "50002", "50011", "51000"}}
            \cup {MapBody(<<<<"code", JStr("0")>>>>),
                  MapBody(<<<<"msg", JStr("m")>>>>)}
      [] client = "OkexV3" ->
            {CodeMsg("code", JInt(30001), "error_message", "m")}
      [] client = "Backpack" -> {MapBody(<<<<"symbol", JStr("SOL_USDC")>>>>)}
      [] client = "Bitmake" -> {CodeMsg("code", JInt(1), "msg", "m")}

\* ------------------------------------------------------------------------
\* SpecRequest: calls of request(), one after the other
\* ------------------------------------------------------------------------
\* the params argument: None, {}, and mappings of a caller; the last two
\* hold the same items, inserted in the two possible orders
ParamChoices ==
    {[none |-> TRUE, d |-> << >>],
     [none |-> FALSE, d |-> << >>],
     [none |-> FALSE, d |-> <<<<"symbol", "BTC/USD">>>>],
     [none |-> FALSE, d |-> <<<<"timestamp", "7">>, <<"symbol", "BTC/USD">>>>],
     [none |-> FALSE, d |-> <<<<"a", "1">>, <<"b", "2">>>>],
     [none |-> FALSE, d |-> <<<<"b", "2">>, <<"a", "1">>>>],
     [none |-> FALSE, d |-> <<<<"recvWindow", "60000">>>>]}

\* the body (data) argument: absent, a JSON text, a dict.  BaseBybitApi
\* takes no body and BackpackApi only a dict.
BodyChoices(client) ==
    CASE client = "BybitLegacy" -> {NoBody}
      [] client = "Backpack" -> {NoBody, DictBody(<<<<"x", "1">>>>)}
      [] OTHER -> {NoBody, StrBody("{\"x\": \"1\"}"),
                   DictBody(<<<<"x", "1">>>>)}

\* same: the params argument is the mapping the call before was given
NoCall == [client |-> "", method |-> "", uri |-> "", auth |-> FALSE,
           paramsNone |-> TRUE, params |-> << >>, body |-> NoBody,
           secretNone |-> FALSE, same |-> FALSE]
NoRsp == [kind |-> "none", exc |-> "", status |-> 0, body |-> NonePayload,
          lib |-> "new"]

\* A caller calls request() with a params argument of its own making: the
\* code up to the send runs.  It raises, or it has the request ready for
\* the session.
Request ==
    /\ rpc = "idle"
    /\ now < MaxClock
    /\ ~cparams.passed
    /\ \E client \in Clients, method \in Methods, uri \in Uris,
          auth \in BOOLEAN, p \in ParamChoices :
         \E body \in BodyChoices(client),
            secretNone \in IF client = "Backpack" THEN BOOLEAN ELSE {FALSE} :
            LET c == [client |-> client, method |-> method, uri |-> uri,
                      auth |-> auth, paramsNone |-> p.none, params |-> p.d,
                      body |-> body, secretNone |-> secretNone,
                      same |-> FALSE]
                b == RequestBuild(c, now + 1)
            IN  /\ call' = c
                /\ req' = b.req
                /\ sig' = b.sig
                /\ cparams' = IF p.none THEN NoParamsObj
                              ELSE ParamsObj(client, p.d,
                                             CallerParams(c, now + 1))
                /\ IF b.raised
                   THEN rpc' = "done" /\ outcome' = Raises(b.err)
                   ELSE rpc' = "sending" /\ outcome' = NoOutcome
    /\ now' = now + 1
    /\ sends' = 0
    /\ rsp' = NoRsp
    /\ UNCHANGED <<tvars, hvars, cvars, huobi>>

\* The caller makes the next authenticated call on the same client and
\* passes the params mapping it passed to the call before.
RequestSameParams ==
    /\ rpc = "idle"
    /\ now < MaxClock
    /\ cparams.passed
    /\ \E method \in Methods, uri \in Uris :
         \E body \in BodyChoices(cparams.client),
            secretNone \in IF cparams.client = "Backpack" THEN BOOLEAN
                           ELSE {FALSE} :
            LET c == [client |-> cparams.client, method |-> method,
                      uri |-> uri, auth |-> TRUE, paramsNone |-> FALSE,
                      params |-> cparams.d, body |-> body,
                      secretNone |-> secretNone, same |-> TRUE]
                b == RequestBuild(c, now + 1)
            IN  /\ call' = c
                /\ req' = b.req
                /\ sig' = b.sig
                /\ cparams' = ParamsObj(c.client, cparams.orig,
                                        CallerParams(c, now + 1))
                /\ IF b.raised
                   THEN rpc' = "done" /\ outcome' = Raises(b.err)
                   ELSE rpc' = "sending" /\ outcome' = NoOutcome
    /\ now' = now + 1
    /\ sends' = 0
    /\ rsp' = NoRsp
    /\ UNCHANGED <<tvars, hvars, cvars, huobi>>

\* HuobiApiBase.set_base_url, between two calls
HuobiApiBase_set_base_url(base_url) ==
    /\ rpc = "idle"
    /\ base_url /= huobi.base_url
    /\ huobi' = [huobi EXCEPT !.base_url = base_url]
    /\ UNCHANGED <<tvars, hvars, cvars, rpc, call, req, sig, sends, rsp,
                   outcome, now, cparams>>

\* mutant: after a failed send the call sends the request once more
SendRaises_retry(e) ==
    /\ rpc = "sending"
    /\ sends' = sends + 1
    /\ rsp' = [NoRsp EXCEPT !.kind = "exception", !.exc = e]
    /\ IF sends = 0
       THEN rpc' = "sending" /\ UNCHANGED outcome
       ELSE rpc' = "done" /\ outcome' = Raises(RequestExcept(call.client, e))
    /\ UNCHANGED <<tvars, hvars, cvars, call, req, sig, now, cparams, huobi>>

\* The send raises exception e of the requests library: the except clauses
\* of the client turn it into the error the call raises.
SendRaises(e) ==
    /\ rpc = "sending"
    /\ sends' = sends + 1
    /\ rsp' = [NoRsp EXCEPT !.kind = "exception", !.exc = e]
    /\ outcome' = Raises(RequestExcept(call.client, e))
    /\ rpc' = "done"
    /\ UNCHANGED <<tvars, hvars, cvars, call, req, sig, now, cparams, huobi>>

\* The send returns a response: the call classifies it and returns the
\* decoded body or raises.
SendResponds(status, body, lib) ==
    /\ rpc = "sending"
    /\ sends' = sends + 1
    /\ rsp' = [kind |-> "response", exc |-> "", status |-> status,
               body |-> body, lib |-> lib]
    /\ outcome' = RequestClassify(call.client, rsp')
    /\ rpc' = "done"
    /\ UNCHANGED <<tvars, hvars, cvars, call, req, sig, now, cparams, huobi>>

\* The caller has the result.  Nothing of a call stays in the client: the
\* next call starts from the arguments it is given.
RequestEnds ==
    /\ rpc = "done"
    /\ rpc' = "idle"
    /\ call' = NoCall
    /\ req' = NoReq
    /\ sig' = ""
    /\ sends' = 0
    /\ rsp' = NoRsp
    /\ outcome' = NoOutcome
    /\ cparams' = NoParamsObj
    /\ UNCHANGED <<tvars, hvars, cvars, now, huobi>>

\* The caller has the result of an authenticated call that was sent and
\* keeps the params mapping it passed, to pass it to its next call.
CallerKeepsParams ==
    /\ rpc = "done"
    /\ sends = 1
    /\ cparams.passed
    /\ call.auth
    /\ ~call.same
    /\ rpc' = "idle"
    /\ call' = NoCall
    /\ req' = NoReq
    /\ sig' = ""
    /\ sends' = 0
    /\ rsp' = NoRsp
    /\ outcome' = NoOutcome
    /\ UNCHANGED <<tvars, hvars, cvars, now, cparams, huobi>>

HttpSendRaises == \E e \in TransportExcs : SendRaises(e)
HttpSendResponds ==
    /\ rpc = "sending"
    /\ \E status \in Statuses, body \in RespBodies(call.client),
          lib \in IF call.client = "Backpack" THEN {"old", "new"}
                  ELSE {"new"} :
           SendResponds(status, body, lib)

SetBaseUrl == \E u \in HuobiBaseUrls : HuobiApiBase_set_base_url(u)

RNext ==
    \/ Request
    \/ RequestSameParams
    \/ SetBaseUrl
    \/ HttpSendRaises
    \/ HttpSendResponds
    \/ RequestEnds
    \/ CallerKeepsParams

\* ========================================================================
\* Specifications
\* ========================================================================
NoRequest ==
    /\ rpc = "idle"
    /\ call = NoCall
    /\ req = NoReq
    /\ sig = ""
    /\ sends = 0
    /\ rsp = NoRsp
    /\ outcome = NoOutcome
    /\ now = 0
    /\ cparams = NoParamsObj
    /\ huobi = [base_url |-> BaseUrl("Huobi"),
                host_url |-> HostOf(BaseUrl("Huobi"))]

NoTransportCall ==
    /\ lastOp = NoOp
    /\ prevOp = NoOp
    /\ firstRet = [u \in Urls |-> NoSess]

TInit == ModuleInit /\ IdleThreads /\ NoTransportCall /\ NoRequest
SpecTransport == TInit /\ [][TNext]_vars

CInit == ModuleInit /\ IdleThreads /\ NoTransportCall /\ NoRequest
SpecThreads == CInit /\ [][CNext]_vars

RInit == ModuleInit /\ IdleThreads /\ NoTransportCall /\ NoRequest
SpecRequest == RInit /\ [][RNext]_vars

\* ========================================================================
\* Properties
\* ========================================================================
\* A cached session agrees with the configured proxy p: both keys carry p,
\* or neither key is there when p is None or "".
AgreesWith(d, p) ==
    IF Truthy(p)
    THEN d = DictSet(DictSet(EmptyDict, "http", p), "https", p)
    ELSE DOMAIN d = {}

\* C2: every get_session(u) returns the session the first get_session(u)
\* returned, and the cache keeps holding exactly that session for u, whatever
\* set_proxy calls come in between.
C2_SameCachedSession ==
    /\ \A u \in Urls :
          firstRet[u] /= NoSess =>
             /\ u \in CacheKeys(GLOBAL_SESSIONS)
             /\ CacheSess(GLOBAL_SESSIONS, u) = firstRet[u]
    /\ lastOp.op = "get_session" => lastOp.ret = firstRet[lastOp.arg]

\* a second get_session(u), after a set_proxy, that found u in the cache
C2_Witness ==
    /\ lastOp.op = "get_session"
    /\ ~lastOp.created
    /\ prevOp.op = "set_proxy"
    /\ lastOp.ret = firstRet[lastOp.arg]

\* C3: after every completed call each cached session carries the configured
\* proxy under 'http' and 'https', or neither key when none is configured.
C3_CacheFollowsProxy ==
    \A s \in CachedSessions : AgreesWith(proxies[s], PROXY)

\* one session cached before a set_proxy(p), one created after it
C3_Witness ==
    /\ Len(GLOBAL_SESSIONS) = 2
    /\ lastOp.op = "get_session" /\ lastOp.created
    /\ prevOp.op = "set_proxy" /\ Truthy(prevOp.arg)
    /\ \A s \in CachedSessions : AgreesWith(proxies[s], prevOp.arg)

\* C4: set_proxy(p) with p non-empty followed by set_proxy(None) completes
\* and leaves every cached session with an empty proxies dict.
C4_ProxyRoundTrip ==
    (/\ lastOp.op = "set_proxy" /\ lastOp.arg = NoneValue
     /\ prevOp.op = "set_proxy" /\ Truthy(prevOp.arg))
    => /\ lastOp.raised = "none"
       /\ \A s \in CachedSessions : proxies[s] = EmptyDict

C4_Witness ==
    /\ lastOp.op = "set_proxy" /\ lastOp.arg = NoneValue
    /\ prevOp.op = "set_proxy" /\ Truthy(prevOp.arg)
    /\ Len(GLOBAL_SESSIONS) = NumUrls
    /\ \A s \in CachedSessions : proxies[s] = EmptyDict

\* C5: set_proxy(None) never raises and leaves every cached session without
\* a proxy, in whatever state it is called.
C5_SetProxyNoneCompletes ==
    (lastOp.op = "set_proxy" /\ lastOp.arg = NoneValue)
    => /\ lastOp.raised = "none"
       /\ \A s \in CachedSessions : DOMAIN proxies[s] = {}

\* C6: two get_session calls with the same base URL, however their lines
\* interleave, return the same session object (the cache, a dict, holds one
\* session per URL).
C6_ConcurrentSameSession ==
    \A t1, t2 \in Threads :
        (/\ tlast[t1].op = "get_session" /\ tlast[t2].op = "get_session"
         /\ tlast[t1].arg = tlast[t2].arg)
        => tlast[t1].ret = tlast[t2].ret

\* C7: when one set_proxy call and one get_session call that creates a
\* session have both returned, every cached session carries the configured
\* proxy.
C7_ProxyReachesNewSession ==
    (/\ numGet = 1 /\ numSet = 1
     /\ \A t \in Threads : pc[t] = "idle"
     /\ \A t \in Threads : tlast[t].raised = "none")
    => \A s \in CachedSessions : AgreesWith(proxies[s], PROXY)

\* the call has reached the HTTP send step
ReachedSend == rpc = "sending" \/ sends > 0

\* C1: a call with auth=True reaches the HTTP send only with the signature
\* computed in that call attached to the request: in the params, in the
\* headers, or, for BaseBybitApi with a method other than GET, in the JSON
\* body that is made of the signed params.  A client that cannot sign
\* (Bitmake) has no signature and so never reaches the send.
C1_SignedBeforeSend ==
    (call.auth /\ ReachedSend)
    => /\ sig /= ""
       /\ \/ sig \in OValues(req.params)
          \/ sig \in OValues(req.headers)
          \/ /\ call.client = "BybitLegacy" /\ call.method /= "GET"
             /\ req.body = DumpedBody(req.body.d)
             /\ sig \in OValues(req.body.d)

\* an authenticated BaseBybitApi POST was sent, the signature in its body
C1_Witness ==
    /\ call.auth /\ sends = 1
    /\ call.client = "BybitLegacy" /\ call.method = "POST"
    /\ sig /= "" /\ sig \in OValues(req.body.d)

\* C1 as stated: the signature is in the outgoing params or headers.
C1_SignedInParamsOrHeaders ==
    (call.auth /\ ReachedSend)
    => /\ sig /= ""
       /\ \/ sig \in OValues(req.params)
          \/ sig \in OValues(req.headers)

\* the error kind C8 gives to a transport exception
TransportKind(e) ==
    IF "requests.Timeout" \in ExcClasses(e) THEN "TimeoutError"
    ELSE IF "requests.ConnectionError" \in ExcClasses(e)
    THEN "ConnectionError"
    ELSE "NetworkError"

\* C8: when the send fails, request raises errors.ConnectionError for a
\* connection failure, errors.TimeoutError for a connect or read timeout and
\* plain errors.NetworkError for any other transport exception.
C8_TransportErrorKinds ==
    (rpc = "done" /\ rsp.kind = "exception")
    => /\ outcome.kind = "raise"
       /\ outcome.err.cls = TransportKind(rsp.exc)

\* C9: a call performs at most one HTTP send, and once it has sent, the
\* call is over: it returns or raises, it does not send again.
C9_AtMostOneSend ==
    /\ sends <= 1
    /\ sends = 1 => (rpc = "done" /\ outcome.kind /= "none")

\* a call that ended in an error after its one send failed
C9_Witness ==
    /\ rpc = "done" /\ sends = 1
    /\ rsp.kind = "exception"
    /\ outcome.kind = "raise"

\* C10: a response whose body is not JSON makes request raise ParseJsonError
\* with the raw body as payload, whatever the status code.
C10_NonJsonIsParseJsonError ==
    (rpc = "done" /\ rsp.kind = "response" /\ rsp.body.kind = "raw")
    => /\ outcome.kind = "raise"
       /\ outcome.err.cls = "ParseJsonError"
       /\ outcome.err.payload = rsp.body

\* the call is over and the send had returned a response
Answered == rpc = "done" /\ rsp.kind = "response"

\* the body is a mapping that carries the success marker of the client
HasSuccessMarker(client, body) ==
    /\ body.kind = "dict"
    /\ CASE client = "BybitLegacy" ->
               JGet(body.d, "ret_code", JNone) = JInt(0)
         [] client = "BybitV5" -> JGet(body.d, "retCode", JNone) = JInt(0)
         [] client = "Ftx" -> JGet(body.d, "success", JNone) = JBool(TRUE)
         [] client = "OkexV5" ->
               JGet(body.d, "code", JNone) \in {JInt(0), JStr("0")}
         [] OTHER -> FALSE

\* C11: in the clients with an embedded success marker, a response whose
\* body is a mapping carrying the marker is returned as the decoded payload,
\* whatever the HTTP status code.
C11_SuccessMarkerWins ==
    (Answered /\ HasSuccessMarker(call.client, rsp.body))
    => outcome = Returns(rsp.body)

\* C12: a Bybit response whose embedded code is 10003 raises
\* OutOfRateLimitError, whatever the HTTP status code, 200 included.
C12_Bybit10003IsRateLimit ==
    (/\ Answered
     /\ rsp.body.kind = "dict"
     /\ \/ /\ call.client = "BybitLegacy"
           /\ JGet(rsp.body.d, "ret_code", JNone) = JInt(10003)
        \/ /\ call.client = "BybitV5"
           /\ JGet(rsp.body.d, "retCode", JNone) = JInt(10003))
    => /\ outcome.kind = "raise"
       /\ outcome.err.cls = "OutOfRateLimitError"

\* the rate-limit kind the status alone gives in the clients C13 names,
\* "" when the status is no rate-limit status of the client
RateLimitKind(client, status) ==
    CASE client = "Binance" /\ status = 429 -> "OutOfRateLimitWarning"
      [] client = "Binance" /\ status = 418 -> "OutOfRateLimitError"
      [] client \in {"BybitLegacy", "BybitV5"} /\ status = 403 ->
            "OutOfRateLimitError"
      [] OTHER -> ""

\* C13: when a response fails with a taxonomy error and its status is a
\* rate-limit status of the exchange (Binance 429 or 418, Bybit 403), the
\* error raised is the rate-limit kind of the status, whatever the native
\* error code in the body.
C13_StatusBeforeCode ==
    (/\ Answered
     /\ outcome.kind = "raise"
     /\ outcome.err.cls \in ErrClasses
     /\ RateLimitKind(call.client, rsp.status) /= "")
    => outcome.err.cls = RateLimitKind(call.client, rsp.status)

\* Binance answered 429 with code -1022, which alone is AuthenticationError
C13_Witness ==
    /\ Answered
    /\ call.client = "Binance" /\ rsp.status = 429
    /\ rsp.body.kind = "dict"
    /\ JGet(rsp.body.d, "code", JNone) = JInt(-1022)
    /\ outcome.kind = "raise"
    /\ outcome.err.cls = "OutOfRateLimitWarning"
    /\ outcome.err.code = JInt(-1022)

\* the statuses a client special-cases as rate-limit statuses
RateLimitStatuses(client) ==
    CASE client = "Binance" -> {429, 418}
      [] client \in {"BybitLegacy", "BybitV5"} -> {403}
      [] client \in {"Ftx", "Bitmake"} -> {429}
      [] OTHER -> {}

\* C14: in Binance, Bybit, FTX and Bitmake a failed response whose status
\* the client special-cases raises OutOfRateLimitWarning when the status is
\* 429 and OutOfRateLimitError when it is 418 or 403.
C14_RateLimitStatusKinds ==
    (/\ Answered
     /\ rsp.status \in RateLimitStatuses(call.client)
     /\ outcome.kind = "raise"
     /\ outcome.err.cls \in ErrClasses)
    => outcome.err.cls = IF rsp.status = 429
                         THEN "OutOfRateLimitWarning"
                         ELSE "OutOfRateLimitError"

\* the keys under which the envelope of an exchange carries its native
\* error code and its message
NativeCodeKeys(client) ==
    CASE client \in {"Binance", "OkexV5", "OkexV3", "Bitmake"} -> {"code"}
      [] client = "BybitLegacy" -> {"ret_code"}
      [] client = "BybitV5" -> {"retCode"}
      [] client = "Huobi" -> {"status", "err-code", "err_code"}
      [] OTHER -> {}
NativeMsgKeys(client) ==
    CASE client \in {"Binance", "OkexV5", "Bitmake"} -> {"msg"}
      [] client = "BybitLegacy" -> {"ret_msg"}
      [] client = "BybitV5" -> {"retMsg"}
      [] client = "Ftx" -> {"error"}
      [] client = "Huobi" -> {"err-msg", "err_msg", "error"}
      [] client = "OkexV3" -> {"error_message"}
      [] OTHER -> {}

\* the prefixes the clients put before the message of a rate-limit error
MsgPrefixes == {"", "rate limit:", "about to exceed the limit:",
                "limit exceeded"}

\* field code of an error is the native code v of the body (a numeric
\* string counts as its number)
IsNativeCode(code, v) ==
    \/ code = v
    \/ v.t = "str" /\ IntOfStr(v.s) /= -1 /\ code = JInt(IntOfStr(v.s))

\* C15: a taxonomy error raised for a response whose body decoded to a
\* mapping carries the HTTP status as status_code, the decoded body as
\* payload, the native code of the body (-1 when it has none) as error_code
\* and the message of the body as msg.
C15_ErrorCarriesFourFields ==
    (/\ Answered
     /\ call.client /= "Backpack"
     /\ rsp.body.kind = "dict"
     /\ outcome.kind = "raise"
     /\ outcome.err.cls \in ErrClasses)
    => LET e == outcome.err
           d == rsp.body.d
           codeKeys == NativeCodeKeys(call.client) \cap OKeys(d)
           msgKeys == NativeMsgKeys(call.client) \cap OKeys(d)
       IN  /\ e.status = JInt(rsp.status)
           /\ e.payload = rsp.body
           /\ IF codeKeys = {} THEN e.code = JInt(-1)
              ELSE \E k \in codeKeys : IsNativeCode(e.code, OGet(d, k))
           /\ msgKeys /= {} =>
                 \E k \in msgKeys, pre \in MsgPrefixes :
                     /\ OGet(d, k).t = "str"
                     /\ e.msg = JStr(pre \o OGet(d, k).s)

\* C16: a call that got a response with a JSON body, whatever its status
\* and the shape of the decoded body, ends by returning the decoded body or
\* by raising one error of the taxonomy; it never returns without a payload
\* and never lets another exception out.
C16_PayloadOrTaxonomyError ==
    (Answered /\ Parsed(rsp.body))
    => \/ outcome = Returns(rsp.body)
       \/ /\ outcome.kind = "raise"
          /\ outcome.err.cls \in ErrClasses

\* C17: a response whose body decodes to a JSON value that is not a mapping
\* is never returned: the call raises a taxonomy error whose payload is the
\* decoded value, whatever the status code.
C17_NonMappingIsError ==
    (Answered /\ rsp.body.kind \in {"list", "null"})
    => /\ outcome.kind = "raise"
       /\ outcome.err.cls \in ErrClasses
       /\ outcome.err.payload = rsp.body

\* C18: a call whose method is not GET, POST or DELETE raises an
\* InvalidMethod error and sends nothing.
C18_InvalidMethodBeforeSend ==
    (rpc /= "idle" /\ call.method \notin {"GET", "POST", "DELETE"})
    => /\ rpc = "done"
       /\ sends = 0
       /\ outcome.kind = "raise"
       /\ outcome.err.cls = "InvalidMethod"

\* every insertion order of the items of dict d
InsertionOrders(d) ==
    LET items == {d[i] : i \in 1..Len(d)}
    IN  {q \in [1..Len(d) -> items] : {q[i] : i \in 1..Len(d)} = items}

\* C19: in BaseBybitApi and BackpackApi, which inject api_key and timestamp
\* into the params and attach 'sign', the signature of an authenticated call
\* is the one the same call gives for every other insertion order of the
\* caller's params.
C19_SignatureOrderInvariant ==
    (/\ rpc /= "idle"
     /\ call.auth
     /\ call.client \in {"BybitLegacy", "Backpack"}
     /\ sig /= "")
    => \A q \in InsertionOrders(call.params) :
          RequestBuild([call EXCEPT !.params = q], now).sig = sig

\* the canonical string C20 gives for caller params P and timestamp T:
\* P, api_key and timestamp, URL-encoded in ascending order of the keys
ExpectedCanonical(P, T) ==
    CASE OKeys(P) = {} -> "api_key=K&timestamp=" \o T
      [] OKeys(P) = {"symbol"} ->
            "api_key=K&symbol=BTC%2FUSD&timestamp=" \o T
      [] OKeys(P) = {"a", "b"} -> "a=1&api_key=K&b=2&timestamp=" \o T
      [] OKeys(P) = {"recvWindow"} ->
            "api_key=K&recvWindow=60000&timestamp=" \o T

\* the params BaseBybitApi sends: the query of a GET, else the JSON body
BybitSentParams == IF call.method = "GET" THEN req.params ELSE req.body.d

\* C20: a BaseBybitApi call with auth=True whose params hold neither
\* 'timestamp', 'api_key' nor 'sign' signs the URL-encoding of the params
\* plus api_key and timestamp in ascending key order, without 'sign', and
\* sends the hex signature as parameter 'sign'.
C20_BybitCanonicalString ==
    (/\ rpc /= "idle"
     /\ call.client = "BybitLegacy"
     /\ call.auth
     /\ OKeys(call.params) \cap {"timestamp", "api_key", "sign"} = {})
    => /\ sig = "hex(HMAC_SHA256(S, "
                \o ExpectedCanonical(call.params, MillisStr(now)) \o "))"
       /\ "sign" \in OKeys(BybitSentParams)
       /\ OGet(BybitSentParams, "sign") = sig
       /\ OKeys(BybitSentParams) =
             OKeys(call.params) \cup {"timestamp", "api_key", "sign"}

\* the call of the spec's scenario, its params inserted as b, a: the string
\* signed is a=1&api_key=K&b=2&timestamp=T
C20_Witness ==
    /\ call.client = "BybitLegacy" /\ call.auth /\ call.method = "GET"
    /\ call.params = <<<<"b", "2">>, <<"a", "1">>>>
    /\ sends = 1
    /\ sig = "hex(HMAC_SHA256(S, a=1&api_key=K&b=2&timestamp=1000))"
    /\ OGet(req.params, "sign") = sig

\* the query string of the caller's params, written out
ExpectedQuery(P) ==
    CASE P = << >> -> ""
      [] P = <<<<"symbol", "BTC/USD">>>> -> "symbol=BTC%2FUSD"
      [] P = <<<<"timestamp", "7">>, <<"symbol", "BTC/USD">>>> ->
            "timestamp=7&symbol=BTC%2FUSD"
      [] P = <<<<"a", "1">>, <<"b", "2">>>> -> "a=1&b=2"
      [] P = <<<<"b", "2">>, <<"a", "1">>>> -> "b=2&a=1"
      [] P = <<<<"recvWindow", "60000">>>> -> "recvWindow=60000"

\* C21: an authenticated BybitV5Api call signs timestamp + access key +
\* recv_window + the query string dispatched when the method is GET, and
\* + the body dispatched otherwise, with the timestamp and recv_window of
\* the X-BAPI headers; signature, timestamp, recv_window and access key are
\* in the headers and the query string holds the caller's params only.
C21_BybitV5SignedPayload ==
    (rpc /= "idle" /\ call.client = "BybitV5" /\ call.auth)
    => LET ts == OGet(req.headers, "X-BAPI-TIMESTAMP")
           rw == OGet(req.headers, "X-BAPI-RECV-WINDOW")
           payload == ts \o "K" \o rw
                      \o (IF call.method = "GET" THEN req.query
                          ELSE req.body.text)
       IN  /\ {"X-BAPI-API-KEY", "X-BAPI-TIMESTAMP", "X-BAPI-RECV-WINDOW",
               "X-BAPI-SIGN"} \subseteq OKeys(req.headers)
           /\ ts = MillisStr(now)
           /\ rw = "5000"
           /\ OGet(req.headers, "X-BAPI-API-KEY") = "K"
           /\ sig = "hex(HMAC_SHA256(S, " \o payload \o "))"
           /\ OGet(req.headers, "X-BAPI-SIGN") = sig
           /\ req.params = << >>
           /\ req.query = ExpectedQuery(call.params)

\* an authenticated POST with params and a JSON text body was sent: the
\* body is signed, not the query string
C21_Witness ==
    /\ call.client = "BybitV5" /\ call.auth /\ call.method = "POST"
    /\ sends = 1
    /\ req.query = "symbol=BTC%2FUSD"
    /\ req.body.text = "{\"x\": \"1\"}"
    /\ sig = "hex(HMAC_SHA256(S, 1000K5000{\"x\": \"1\"}))"
    /\ OGet(req.headers, "X-BAPI-SIGN") = sig

\* C22: every HTTP send of request is given a timeout, 10 seconds when the
\* caller passes none.
C22_SendHasTimeout ==
    ReachedSend => req.timeout = DefaultTimeout

\* C23: when a client (Binance, Bybit legacy, Huobi, Backpack) is given, in
\* an authenticated call, the params mapping the authenticated call before
\* was given, the signature is the one a call with the mapping as the caller
\* made it gives at the time of this call: nothing of the first call, its
\* timestamp or its signature, is in the string signed.
C23_SecondCallIndependent ==
    (/\ rpc /= "idle"
     /\ call.same
     /\ call.auth
     /\ call.client \in {"Binance", "BybitLegacy", "Huobi", "Backpack"}
     /\ sig /= "")
    => sig = RequestBuild([call EXCEPT !.params = cparams.orig,
                                       !.same = FALSE], now).sig

\* C27: a call leaves the params mapping the caller passed as it was:
\* nothing is added to it and nothing in it is replaced.
C27_CallerParamsUnchanged ==
    (rpc /= "idle" /\ cparams.passed) => cparams.d = call.params

\* the params signed in a Huobi call: those sent, without the signature
HuobiSignedParams ==
    SelectSeq(req.params, LAMBDA item : item[1] /= "Signature")

\* C28: an authenticated Huobi request with a base-relative path is sent to
\* the host of the base URL set last, and the host in the string it signs
\* is that host.
C28_HuobiSignedHostIsSentHost ==
    (/\ ReachedSend
     /\ call.client = "Huobi"
     /\ call.auth
     /\ ~IsAbsolute(call.uri))
    => /\ HostOf(req.url) = HostOf(huobi.base_url)
       /\ sig = "base64(HMAC_SHA256(S, " \o call.method \o "\n"
                \o HostOf(req.url) \o "\n" \o call.uri \o "\n"
                \o UrlEncode(SortedItems(HuobiSignedParams)) \o "))"

\* C29: an authenticated Binance request sends the recvWindow of the
\* caller's params when there is one, and 5000 when there is none.
C29_CallerRecvWindowKept ==
    (ReachedSend /\ call.client = "Binance" /\ call.auth)
    => /\ "recvWindow" \in OKeys(req.params)
       /\ OGet(req.params, "recvWindow") =
             IF "recvWindow" \in OKeys(call.params)
             THEN OGet(call.params, "recvWindow")
             ELSE "5000"

\* the error kind C24 gives to a Binance code
ExpectedBinanceKind(code) ==
    CASE code = -1003 -> "OutOfRateLimitError"
      [] code = -1007 -> "ServiceTimeout"
      [] code \in {-1022, -2014, -2015} -> "AuthenticationError"
      [] code = -1016 -> "ExchangeInMaintain"
      [] code \in (-1199)..(-1100) -> "ArgumentsError"
      [] OTHER -> "ExchangeError"

\* C24: a Binance response with a status other than 200, 429 and 418 and a
\* mapping body raises the error kind of its native code, an absent code
\* counting as -1.
C24_BinanceCodeKinds ==
    (/\ Answered
     /\ call.client = "Binance"
     /\ rsp.status \notin {200, 429, 418}
     /\ rsp.body.kind = "dict")
    => /\ outcome.kind = "raise"
       /\ outcome.err.cls =
             ExpectedBinanceKind(JGet(rsp.body.d, "code", JInt(-1)).i)

\* status 400 with code -1199, the lower end of the argument errors
C24_Witness ==
    /\ Answered
    /\ call.client = "Binance" /\ rsp.status = 400
    /\ rsp.body.kind = "dict"
    /\ JGet(rsp.body.d, "code", JNone) = JInt(-1199)
    /\ outcome.kind = "raise"
    /\ outcome.err.cls = "ArgumentsError"

\* the error kind C25 gives to an OKX v5 code
ExpectedOkexKind(code) ==
    CASE code = 50001 -> "ExchangeInMaintain"
      [] code = 50002 -> "ServiceTimeout"
      [] code = 50011 -> "OutOfRateLimitError"
      [] OTHER -> "ExchangeError"

\* C25: an OKX v5 response whose body is a mapping with a code (and a msg)
\* is returned when the code is 0 and otherwise raises the kind of the code,
\* which is an ExchangeError kind.
C25_OkexCodeKinds ==
    (/\ Answered
     /\ call.client = "OkexV5"
     /\ rsp.body.kind = "dict"
     /\ {"code", "msg"} \subseteq OKeys(rsp.body.d))
    => LET code == IntOfStr(OGet(rsp.body.d, "code").s)
       IN  IF code = 0 THEN outcome = Returns(rsp.body)
           ELSE /\ outcome.kind = "raise"
                /\ outcome.err.cls = ExpectedOkexKind(code)
                /\ IsKind(outcome.err.cls, "ExchangeError")

\* C26: the concatenated-field signers sign the URL-encoded parameters.
\* For a call with a base-relative path, Huobi signs method, host, path and
\* the sorted URL-encoded params joined by newlines; OKX signs timestamp +
\* method + path, then '?' and the URL-encoded params as dispatched when
\* there are params, then the body.
C26_SignedQueryIsEncoded ==
    (/\ ReachedSend
     /\ call.auth
     /\ ~IsAbsolute(call.uri)
     /\ call.client \in {"Huobi", "OkexV5", "OkexV3"})
    => IF call.client = "Huobi"
       THEN sig = "base64(HMAC_SHA256(S, " \o call.method \o "\n"
                  \o (IF IsAbsolute(call.uri) THEN HostOf(call.uri)
                      ELSE huobi.host_url)
                  \o "\n" \o PathOf(call.uri) \o "\n"
                  \o UrlEncode(SortedItems(HuobiSignedParams)) \o "))"
       ELSE sig = "base64(HMAC_SHA256(S, "
                  \o OGet(req.headers, "OK-ACCESS-TIMESTAMP")
                  \o call.method \o PathOf(call.uri)
                  \o (IF Len(req.params) = 0 THEN ""
                      ELSE "?" \o UrlEncode(req.params))
                  \o req.body.text \o "))"

\* C30: an error of a NetworkError kind is raised only when the HTTP send
\* itself raised, never once a response has been received.
C30_NetworkErrorOnlyFromSend ==
    (/\ rpc = "done"
     /\ outcome.kind = "raise"
     /\ IsKind(outcome.err.cls, "NetworkError"))
    => rsp.kind = "exception"

====
